---------------------------- MODULE Spec2Model ----------------------------
(***************************************************************************)
(* A model of check_megaraid.py, the Nagios probe for MegaRAID             *)
(* controllers: the severity lattice, the report-section extractor, the    *)
(* drive-attribute parser, the domain checkers and the driver that folds   *)
(* the six facet results into one verdict.                                 *)
(*                                                                         *)
(* Texts are modelled by what the code's regular expressions can see of    *)
(* them: a line is a header, a row of dashes, a data row or other text;    *)
(* a string of ';'-terminated identifiers is the sequence of identifiers;  *)
(* an identifier /cX/eY/sZ is the tuple <<X, Y, Z>>.                       *)
(***************************************************************************)
EXTENDS Integers, Sequences, FiniteSets, TLC

VARIABLES
    \* one call of a pure function: its input and its result
    arg, ret,
    \* module globals set from the command line (lines 28-44, 545-552)
    EXPECT_BATTERY, EXPECT_HOTSPARE, IGNORE_UGOOD, IGNORE_OTHERS, MISSING_OK,
    MISSING_OK_LIST,
    USE_FAHRENHEIT, SLOT_START,
    \* the driver: position, process result, commands issued so far
    pc, exit_status, printed, issued,
    \* the driver's locals (lines 486-505, 584-640)
    CONTROLLERS, ctl, enclosures, enc, HAS_HOTSPARE,
    BBU_EXIT_CODE, BBU_OUT, BBU_OUT_LONG,
    ALL_VDS_EXIT_CODE, ALL_VDS_OUT, ALL_VDS_OUT_WA, ALL_VDS_OUT_LONG,
    ALL_ENCLOSURES_EXIT_CODE, ALL_ENCLOSURES_OUT, ALL_ENCLOSURES_OUT_LONG,
    ALL_DISKS_EXIT_CODE, ALL_DISKS_OUT, ALL_DISKS_OUT_WA, ALL_DISKS_OUT_LONG,
    ALL_HOTSPARES_EXIT_CODE, ALL_HOTSPARES_OUT, ALL_HOTSPARES_OUT_LONG,
    ALL_FOREIGN_EXIT_CODE, ALL_FOREIGN_OUT, ALL_FOREIGN_OUT_LONG,
    EXIT_CODE, EXIT_STATE,
    \* what the latest checker call of the driver read and returned
    seen

flagVars == <<EXPECT_BATTERY, EXPECT_HOTSPARE, IGNORE_UGOOD, IGNORE_OTHERS,
              MISSING_OK, MISSING_OK_LIST, USE_FAHRENHEIT, SLOT_START>>

procVars == <<pc, exit_status, printed, issued>>

localVars == <<CONTROLLERS, ctl, enclosures, enc, HAS_HOTSPARE,
               BBU_EXIT_CODE, BBU_OUT, BBU_OUT_LONG,
               ALL_VDS_EXIT_CODE, ALL_VDS_OUT, ALL_VDS_OUT_WA, ALL_VDS_OUT_LONG,
               ALL_ENCLOSURES_EXIT_CODE, ALL_ENCLOSURES_OUT, ALL_ENCLOSURES_OUT_LONG,
               ALL_DISKS_EXIT_CODE, ALL_DISKS_OUT, ALL_DISKS_OUT_WA, ALL_DISKS_OUT_LONG,
               ALL_HOTSPARES_EXIT_CODE, ALL_HOTSPARES_OUT, ALL_HOTSPARES_OUT_LONG,
               ALL_FOREIGN_EXIT_CODE, ALL_FOREIGN_OUT, ALL_FOREIGN_OUT_LONG,
               EXIT_CODE, EXIT_STATE, seen>>

vars == <<arg, ret, flagVars, procVars, localVars>>

-----------------------------------------------------------------------------
(* Bounds of the model *)

\* the lattice specification combines this many codes (associativity needs 3)
MaxCodes == 3
\* lines of a text handed to find_relevant_lines
MaxLines == 5
\* slot numbers run from SLOT_START to MaxSlot
MaxSlot == 10
\* the largest --slotstart tried
MaxSlotStart == 1
\* controllers handed to a checker specification
MaxCtl == 2

-----------------------------------------------------------------------------
(* Generic helpers *)

None == "None"

Min(S) == CHOOSE x \in S : \A y \in S : x <= y

Max(S) == CHOOSE x \in S : \A y \in S : x >= y

\* Python's sorted() of a set of integers
RECURSIVE sorted(_)
sorted(S) == IF S = {} THEN <<>> ELSE <<Min(S)>> \o sorted(S \ {Min(S)})

Range(s) == {s[i] : i \in 1..Len(s)}

\* the member of a one-element set.  ValueOf({e(x) : x \in {d}}) is e(d) with
\* d computed once, however often e names x
ValueOf(S) == CHOOSE v \in S : TRUE

\* all sequences over S of length at most n
SeqsUpTo(S, n) == UNION {[1..k -> S] : k \in 0..n}

-----------------------------------------------------------------------------
(* 4.1 Severity lattice *)

NAGIOS_OK == 0
NAGIOS_WARNING == 1
NAGIOS_CRITICAL == 2
NAGIOS_UNKNOWN == 3

NAGIOS_ORDER == <<NAGIOS_CRITICAL, NAGIOS_WARNING, NAGIOS_UNKNOWN, NAGIOS_OK>>

Severities == {NAGIOS_OK, NAGIOS_WARNING, NAGIOS_CRITICAL, NAGIOS_UNKNOWN}

\* a plausible slip: the docstring's order OK->UK->WA->CR read from the wrong end
handle_nagios_codes_mut(nagios_code_original, nagios_code_new) ==
    LET hit == {i \in 1..Len(NAGIOS_ORDER) :
                    NAGIOS_ORDER[i] \in {nagios_code_new, nagios_code_original}}
    IN  IF hit = {} THEN 0 ELSE NAGIOS_ORDER[Max(hit)]

\* the first code of NAGIOS_ORDER that is one of the two arguments, 0 if none
handle_nagios_codes(nagios_code_original, nagios_code_new) ==
    LET hit == {i \in 1..Len(NAGIOS_ORDER) :
                    NAGIOS_ORDER[i] \in {nagios_code_new, nagios_code_original}}
    IN  IF hit = {} THEN 0 ELSE NAGIOS_ORDER[Min(hit)]

\* end(): the state printed before the colon, and the process exit status
prep == <<"OK", "WA", "CR", "UK">>

end(ecode, output, long_output) ==
    [state |-> prep[ecode + 1], output |-> output, long |-> long_output,
     status |-> ecode]

\* an uncaught Python exception: a traceback on stderr, nothing printed by
\* end(), and the interpreter's exit status 1
PY_UNCAUGHT_EXIT == 1

-----------------------------------------------------------------------------
(* 4.2 Report-section extractor *)

\* match('-----+$', line): the whole line is a row of at least this many dashes
MIN_DASHES == 5

\* Lines: [k |-> "hdr", h |-> name], [k |-> "dash", n |-> count],
\*        [k |-> "row", ...] and [k |-> "txt", t |-> text]
IsHeader(line, header) == line.k = "hdr" /\ line.h = header

IsSeparator(line) == line.k = "dash" /\ line.n >= MIN_DASHES

\* the loop of lines 118-128 from line i on; the result is relevant_lines
RECURSIVE frl_loop(_, _, _, _, _, _)
frl_loop(lines, header, i, start_match, start_parse, relevant_lines) ==
    IF i > Len(lines) THEN relevant_lines
    ELSE IF ~start_match /\ IsHeader(lines[i], header)
         THEN frl_loop(lines, header, i + 1, TRUE, start_parse, relevant_lines)
    ELSE IF start_match
         THEN IF IsSeparator(lines[i])
              THEN IF ~start_parse
                   THEN frl_loop(lines, header, i + 1, start_match, TRUE, relevant_lines)
                   ELSE relevant_lines
              ELSE frl_loop(lines, header, i + 1, start_match, start_parse,
                            Append(relevant_lines, lines[i]))
    ELSE frl_loop(lines, header, i + 1, start_match, start_parse, relevant_lines)

find_relevant_lines(string_to_search, header) ==
    frl_loop(string_to_search, header, 1, FALSE, FALSE, <<>>)

-----------------------------------------------------------------------------
(* Missing-slot detection *)

\* The order in which list(a_set - b_set) yields small non-negative integers
\* (line 321).  set.__sub__ copies the left set and discards when it is more
\* than four times the right one, which keeps the ascending table of
\* set(range()); otherwise it inserts the kept keys, in ascending order, into
\* a fresh table of 8 entries, key k at entry k mod 8 and on a collision at
\* entry (5i + 1) mod 8, and rebuilds the table with 32 entries when the
\* fifth key arrives.  Holds for keys below 32.
RECURSIVE set_probe(_, _)
set_probe(table, i) ==
    IF table[i] = -1 THEN i ELSE set_probe(table, (i * 5 + 1) % 8)

RECURSIVE set_fill(_, _)
set_fill(table, keys) ==
    IF keys = <<>> THEN table
    ELSE set_fill([table EXCEPT ![set_probe(table, Head(keys) % 8)] = Head(keys)],
                  Tail(keys))

list_of_set_difference(left_len, right_len, S) ==
    IF (left_len \div 4) > right_len \/ Cardinality(S) >= 5
    THEN sorted(S)
    ELSE LET t == set_fill([i \in 0..7 |-> -1], sorted(S))
         IN  SelectSeq([i \in 1..8 |-> t[i - 1]], LAMBDA k : k # -1)

\* range(SLOT_START, 2049), cut at the model's highest slot number
slot_range == SLOT_START..MaxSlot

\* the loop of lines 325-333 from index i (1-based) on; the result is blocks
RECURSIVE des_loop(_, _, _, _, _)
des_loop(non_continuous, i, prev_matched, block, blocks) ==
    IF i > Len(non_continuous) THEN blocks
    ELSE IF i + 1 <= Len(non_continuous)
            /\ non_continuous[i + 1] = non_continuous[i] + 1
         THEN des_loop(non_continuous, i + 1, TRUE,
                       Append(block, non_continuous[i]), blocks)
    ELSE IF prev_matched /\ non_continuous[i - 1] = non_continuous[i] - 1
         THEN des_loop(non_continuous, i + 1, FALSE, <<>>,
                       Append(blocks, Append(block, non_continuous[i])))
    ELSE des_loop(non_continuous, i + 1, prev_matched, block, blocks)

detect_empty_slots(empty) ==
    LET full == slot_range \ empty
    IN  IF full = {} THEN <<>>
        ELSE LET last == Max(full)
                 removed(blocks) ==
                     UNION {Range(blocks[b]) :
                              b \in {c \in 1..Len(blocks) : Len(blocks[c]) > 2}}
             IN  ValueOf({sorted(Range(non_continuous)
                                 \ ValueOf({removed(blocks) :
                                       blocks \in {des_loop(non_continuous, 1, FALSE,
                                                            <<>>, <<>>)}})) :
                     non_continuous \in
                         {list_of_set_difference(last + 1 - SLOT_START, Cardinality(full),
                                                 (SLOT_START..last) \ full)}})

-----------------------------------------------------------------------------
(* Initial values *)

\* the globals' defaults (lines 28-34, 40)
DefaultFlags ==
    /\ EXPECT_BATTERY = TRUE
    /\ EXPECT_HOTSPARE = TRUE
    /\ IGNORE_UGOOD = FALSE
    /\ IGNORE_OTHERS = TRUE
    /\ MISSING_OK = FALSE
    /\ MISSING_OK_LIST = {}
    /\ USE_FAHRENHEIT = FALSE
    /\ SLOT_START = 0

\* nothing printed, no exit status, no command issued yet
ProcInit(start) ==
    /\ pc = start
    /\ exit_status = -1
    /\ printed = <<>>
    /\ issued = {}

\* the driver's locals as declared in lines 486-505, and EXIT_CODE, EXIT_STATE
LocalsInit ==
    /\ CONTROLLERS = <<>> /\ ctl = 0 /\ enclosures = <<>> /\ enc = 0
    /\ HAS_HOTSPARE = FALSE
    /\ BBU_EXIT_CODE = NAGIOS_OK /\ BBU_OUT = <<>> /\ BBU_OUT_LONG = <<>>
    /\ ALL_VDS_EXIT_CODE = NAGIOS_OK /\ ALL_VDS_OUT = <<>>
    /\ ALL_VDS_OUT_WA = <<>> /\ ALL_VDS_OUT_LONG = <<>>
    /\ ALL_ENCLOSURES_EXIT_CODE = NAGIOS_OK /\ ALL_ENCLOSURES_OUT = <<>>
    /\ ALL_ENCLOSURES_OUT_LONG = <<>>
    /\ ALL_DISKS_EXIT_CODE = NAGIOS_OK /\ ALL_DISKS_OUT = <<>>
    /\ ALL_DISKS_OUT_WA = <<>> /\ ALL_DISKS_OUT_LONG = <<>>
    /\ ALL_HOTSPARES_EXIT_CODE = NAGIOS_OK /\ ALL_HOTSPARES_OUT = <<>>
    /\ ALL_HOTSPARES_OUT_LONG = <<>>
    /\ ALL_FOREIGN_EXIT_CODE = NAGIOS_OK /\ ALL_FOREIGN_OUT = <<>>
    /\ ALL_FOREIGN_OUT_LONG = <<>>
    /\ EXIT_CODE = NAGIOS_OK /\ EXIT_STATE = <<>>
    /\ seen = [call |-> "none"]

\* a pure function returns: only ret and the position change
Return(value) ==
    /\ pc = "call"
    /\ pc' = "return"
    /\ ret' = value
    /\ UNCHANGED <<arg, flagVars, exit_status, printed, issued, localVars>>

-----------------------------------------------------------------------------
(* Specification of the lattice: handle_nagios_codes on every tuple of codes *)

RECURSIVE fold_left(_, _)
fold_left(acc, codes) ==
    IF codes = <<>> THEN acc
    ELSE fold_left(handle_nagios_codes(acc, Head(codes)), Tail(codes))

RECURSIVE fold_right(_)
fold_right(codes) ==
    IF Len(codes) = 1 THEN codes[1]
    ELSE handle_nagios_codes(codes[1], fold_right(Tail(codes)))

InitCodes ==
    /\ arg \in [1..MaxCodes -> Severities]
    /\ ret = <<>>
    /\ DefaultFlags /\ ProcInit("call") /\ LocalsInit

CombineCodes ==
    Return([ab    |-> handle_nagios_codes(arg[1], arg[2]),
            ba    |-> handle_nagios_codes(arg[2], arg[1]),
            aa    |-> handle_nagios_codes(arg[1], arg[1]),
            a_ok  |-> handle_nagios_codes(arg[1], NAGIOS_OK),
            ok_a  |-> handle_nagios_codes(NAGIOS_OK, arg[1]),
            left  |-> fold_left(arg[1], Tail(arg)),
            right |-> fold_right(arg)])

NextCodes == CombineCodes

SpecCodes == InitCodes /\ [][NextCodes]_vars

-----------------------------------------------------------------------------
(* Specification of the extractor: find_relevant_lines on every short text *)

\* a matching header, another table's header, rows of 4, 5 and 6 dashes, two
\* other lines
LineAlphabet ==
    {[k |-> "hdr", h |-> "H"], [k |-> "hdr", h |-> "G"],
     [k |-> "dash", n |-> MIN_DASHES - 1], [k |-> "dash", n |-> MIN_DASHES],
     [k |-> "txt", t |-> "x"], [k |-> "txt", t |-> "y"]}

InitLines ==
    /\ arg \in SeqsUpTo(LineAlphabet, MaxLines)
    /\ ret = <<>>
    /\ DefaultFlags /\ ProcInit("call") /\ LocalsInit

FindRelevantLines == Return(find_relevant_lines(arg, "H"))

NextLines == FindRelevantLines

SpecLines == InitLines /\ [][NextLines]_vars

-----------------------------------------------------------------------------
(* Specification of the slot detection: detect_empty_slots on every set of  *)
(* observed slots; arg is the set left of range(SLOT_START, ...) once the   *)
(* observed slots are removed (lines 351, 362)                              *)

InitSlots ==
    /\ EXPECT_BATTERY = TRUE /\ EXPECT_HOTSPARE = TRUE /\ IGNORE_UGOOD = FALSE
    /\ IGNORE_OTHERS = TRUE /\ MISSING_OK = FALSE /\ USE_FAHRENHEIT = FALSE
    /\ MISSING_OK_LIST = {}
    /\ SLOT_START \in 0..MaxSlotStart
    /\ arg \in SUBSET slot_range
    /\ ret = <<>>
    /\ ProcInit("call") /\ LocalsInit

DetectEmptySlots == Return(detect_empty_slots(arg))

NextSlots == DetectEmptySlots

SpecSlots == InitSlots /\ [][NextSlots]_vars

-----------------------------------------------------------------------------
(* 4.4 Battery / cache-vault checker *)

\* one line of the detail text: its prefix, what it is about, the device
Line(pre, what, id) == [pre |-> pre, what |-> what, id |-> id]

\* What the searches of lines 217-221 can see of a /cX/bbu report, and those of
\* lines 187-189 of a /cX/cv report
BbuReports == [use_cv : BOOLEAN, optimal : BOOLEAN, absent : BOOLEAN]

CvReports == [optimal : BOOLEAN, absent : BOOLEAN]

\* the loop of lines 185-200; cv_info[c] is the report of controller c
RECURSIVE cvs_loop(_, _, _, _, _)
cvs_loop(cv_controllers, cv_info, cv_ecode, cv_out, cv_out_long) ==
    IF cv_controllers = <<>>
    THEN [ecode |-> cv_ecode, out |-> cv_out, long |-> cv_out_long]
    ELSE LET cv_controller == Head(cv_controllers)
             rest == Tail(cv_controllers)
             info == cv_info[cv_controller]
         IN  IF info.optimal
             THEN cvs_loop(rest, cv_info, cv_ecode, cv_out,
                      Append(cv_out_long, Line("OK", "Battery", <<cv_controller>>)))
             ELSE IF info.absent /\ ~EXPECT_BATTERY
             THEN cvs_loop(rest, cv_info, cv_ecode, cv_out,
                      Append(cv_out_long,
                             Line("OK", "Battery missing, expected", <<cv_controller>>)))
             ELSE IF info.absent
             THEN cvs_loop(rest, cv_info,
                      handle_nagios_codes(cv_ecode, NAGIOS_CRITICAL),
                      Append(cv_out, <<cv_controller>>),
                      Append(cv_out_long,
                             Line("CR", "Battery missing", <<cv_controller>>)))
             ELSE cvs_loop(rest, cv_info,
                      handle_nagios_codes(cv_ecode, NAGIOS_CRITICAL),
                      Append(cv_out, <<cv_controller>>),
                      Append(cv_out_long, Line("CR", "Battery", <<cv_controller>>)))

check_cvs(cv_controllers, cv_info) ==
    cvs_loop(cv_controllers, cv_info, NAGIOS_OK, <<>>, <<>>)

\* the loop of lines 215-232; the result is what lines 233-237 start from
RECURSIVE bbus_loop(_, _, _, _, _, _)
bbus_loop(bbu_controllers, bbu_info, cvs_controllers, battery_ok, bbu_out, bbu_out_long) ==
    IF bbu_controllers = <<>>
    THEN [cvs_controllers |-> cvs_controllers, battery_ok |-> battery_ok,
          bbu_out |-> bbu_out, bbu_out_long |-> bbu_out_long]
    ELSE LET bbu_controller == Head(bbu_controllers)
             rest == Tail(bbu_controllers)
             bbu == bbu_info[bbu_controller]
         IN  IF bbu.use_cv
             THEN bbus_loop(rest, bbu_info, Append(cvs_controllers, bbu_controller),
                      battery_ok, bbu_out, bbu_out_long)
             ELSE IF bbu.optimal
             THEN bbus_loop(rest, bbu_info, cvs_controllers, battery_ok, bbu_out,
                      Append(bbu_out_long, Line("OK", "Battery", <<bbu_controller>>)))
             ELSE IF bbu.absent /\ ~EXPECT_BATTERY
             THEN bbus_loop(rest, bbu_info, cvs_controllers, battery_ok, bbu_out,
                      Append(bbu_out_long,
                             Line("OK", "Battery missing, expected", <<bbu_controller>>)))
             ELSE IF bbu.absent
             THEN bbus_loop(rest, bbu_info, cvs_controllers,
                      handle_nagios_codes(battery_ok, NAGIOS_CRITICAL),
                      Append(bbu_out, <<bbu_controller>>),
                      Append(bbu_out_long,
                             Line("CR", "Battery missing", <<bbu_controller>>)))
             \* line 231 writes the prefix OK for this CRITICAL battery
             ELSE bbus_loop(rest, bbu_info, cvs_controllers,
                      handle_nagios_codes(battery_ok, NAGIOS_CRITICAL),
                      Append(bbu_out, <<bbu_controller>>),
                      Append(bbu_out_long, Line("OK", "Battery", <<bbu_controller>>)))

\* a plausible slip: the cache-vault result is computed and then not combined
check_bbus_mut(bbu_controllers, bbu_info, cv_info) ==
    LET b == bbus_loop(bbu_controllers, bbu_info, <<>>, NAGIOS_OK, <<>>, <<>>)
        cvs == check_cvs(b.cvs_controllers, cv_info)
    IN  [ecode |-> b.battery_ok,
         out   |-> IF b.battery_ok = NAGIOS_OK THEN <<>> ELSE b.bbu_out \o cvs.out,
         long  |-> b.bbu_out_long \o cvs.long]

check_bbus(bbu_controllers, bbu_info, cv_info) ==
    LET b == bbus_loop(bbu_controllers, bbu_info, <<>>, NAGIOS_OK, <<>>, <<>>)
        cvs == check_cvs(b.cvs_controllers, cv_info)
        battery_ok == handle_nagios_codes(b.battery_ok, cvs.ecode)
    IN  [ecode |-> battery_ok,
         out   |-> IF battery_ok = NAGIOS_OK THEN <<>> ELSE b.bbu_out \o cvs.out,
         long  |-> b.bbu_out_long \o cvs.long]

-----------------------------------------------------------------------------
(* Specification of the battery checker: check_bbus on every list of       *)
(* controllers 0, 1, ... and every pair of reports for each                *)

ControllerLists(n) == {[i \in 1..k |-> i - 1] : k \in 0..n}

InitBatt ==
    /\ EXPECT_BATTERY \in BOOLEAN
    /\ EXPECT_HOTSPARE = TRUE /\ IGNORE_UGOOD = FALSE /\ IGNORE_OTHERS = TRUE
    /\ MISSING_OK = FALSE /\ USE_FAHRENHEIT = FALSE /\ SLOT_START = 0
    /\ MISSING_OK_LIST = {}
    /\ \E cs \in ControllerLists(MaxCtl) :
         \E b \in [Range(cs) -> BbuReports], c \in [Range(cs) -> CvReports] :
            arg = [controllers |-> cs, bbu |-> b, cv |-> c]
    /\ ret = <<>>
    /\ ProcInit("call") /\ LocalsInit

CheckBbus == Return(check_bbus(arg.controllers, arg.bbu, arg.cv))

NextBatt == CheckBbus

SpecBatt == InitBatt /\ [][NextBatt]_vars

-----------------------------------------------------------------------------
(* 4.3 Device-attribute parser *)

\* A value is None or a Python value; a call returns values or raises
NoneVal == [none |-> TRUE]

Val(v) == [none |-> FALSE, v |-> v]

Raise(exc) == [err |-> TRUE, exc |-> exc]

Ok(v) == [err |-> FALSE, v |-> v]

\* ds_attributes in dictionary order (lines 277-286): the attribute's number
\* and its type
A_MANUFACTURER == 1
A_MODEL == 2
A_SN == 3
A_TEMPERATURE == 4
A_SMART == 5
A_MEDIA == 6
A_OTHER == 7
A_PREDICTIVE == 8

ds_types == <<"str", "str", "str", "float", "bool", "int", "int", "int">>

\* N/A becomes this number (line 300)
NOT_AVAILABLE == -99

\* The text right of " = " as the matches of lines 292-299 see it:
\*   [t |-> "temp", c, f]  "45C (113.00F)"
\*   [t |-> "yes"], [t |-> "no"], [t |-> "na"]
\*   [t |-> "num", v]      a row of digits
\*   [t |-> "word", w]     any other text
\*   [t |-> "empty"]       nothing: line.strip() cuts the " = " and [1] fails
ds_get_value(raw) ==
    CASE raw.t = "empty" -> Raise("IndexError")
      [] raw.t = "temp"  -> Ok([t |-> "num", v |-> IF USE_FAHRENHEIT THEN raw.f ELSE raw.c])
      [] raw.t = "yes"   -> Ok([t |-> "bool", v |-> TRUE])
      [] raw.t = "no"    -> Ok([t |-> "bool", v |-> FALSE])
      [] raw.t = "na"    -> Ok([t |-> "int", v |-> NOT_AVAILABLE])
      [] OTHER           -> Ok(raw)

\* str(x), float(x), bool(x), int(x) of what ds_get_value returned (line 307):
\* a string of digits, another string, True or False, or the number -99
ds_convert(type, x) ==
    CASE type = "str"  -> Ok(x)
      [] type = "bool" -> Ok(IF x.t = "bool" THEN x.v ELSE TRUE)
      [] OTHER ->  \* int and float
            CASE x.t = "num"  -> Ok(x.v)
              [] x.t = "int"  -> Ok(x.v)
              [] x.t = "bool" -> Ok(IF x.v THEN 1 ELSE 0)
              [] OTHER        -> Raise("ValueError")

\* a plausible repair gone wrong: a value that cannot be converted is dropped
\* and the attribute stays None
ds_capture_mut(type, raw) ==
    LET got == ds_get_value(raw)
    IN  IF got.err THEN got
        ELSE IF ds_convert(type, got.v).err THEN Ok(NoneVal)
        ELSE Ok(Val(ds_convert(type, got.v).v))

\* ds_data[0](ds_get_value(ds_line))
ds_capture(type, raw) ==
    LET got == ds_get_value(raw)
    IN  IF got.err THEN got
        ELSE IF ds_convert(type, got.v).err THEN ds_convert(type, got.v)
        ELSE Ok(Val(ds_convert(type, got.v).v))

ds_complete(data) == \A a \in 1..Len(data) : ~data[a].none

\* a plausible slip: a later line of an attribute replaces the value captured
RECURSIVE ds_loop_mut(_, _, _)
ds_loop_mut(lines, i, data) ==
    IF i > Len(lines) THEN Ok(data)
    ELSE LET a == lines[i].a
         IN  IF a # 0
             THEN ValueOf({IF got.err THEN got
                           ELSE IF ds_complete([data EXCEPT ![a] = got.v])
                           THEN Ok([data EXCEPT ![a] = got.v])
                           ELSE ds_loop_mut(lines, i + 1, [data EXCEPT ![a] = got.v]) :
                      got \in {ds_capture(ds_types[a], lines[i].v)}})
             ELSE IF ds_complete(data) THEN Ok(data)
             ELSE ds_loop_mut(lines, i + 1, data)

\* The loop of lines 303-310 from line i on.  A line of the report is
\* [a |-> the attribute its start matches, 0 for none, v |-> the text after =]
RECURSIVE ds_loop(_, _, _)
ds_loop(lines, i, data) ==
    IF i > Len(lines) THEN Ok(data)
    ELSE LET a == lines[i].a
         IN  IF a # 0 /\ data[a].none
             THEN LET got == ds_capture(ds_types[a], lines[i].v)
                  IN  IF got.err THEN got
                      ELSE LET data2 == [data EXCEPT ![a] = got.v]
                           IN  IF ds_complete(data2) THEN Ok(data2)
                               ELSE ds_loop(lines, i + 1, data2)
             ELSE IF ds_complete(data) THEN Ok(data)
             ELSE ds_loop(lines, i + 1, data)

\* the same loop (lines 303-310), for the number of the last line it reads
RECURSIVE ds_last_line(_, _, _)
ds_last_line(lines, i, data) ==
    IF i > Len(lines) THEN Len(lines)
    ELSE LET a == lines[i].a
         IN  IF a # 0 /\ data[a].none
             THEN ValueOf({IF got.err THEN i
                           ELSE IF ds_complete([data EXCEPT ![a] = got.v]) THEN i
                           ELSE ds_last_line(lines, i + 1, [data EXCEPT ![a] = got.v]) :
                      got \in {ds_capture(ds_types[a], lines[i].v)}})
             ELSE IF ds_complete(data) THEN i
             ELSE ds_last_line(lines, i + 1, data)

get_drive_state(report) ==
    ds_loop(report, 1, [a \in 1..Len(ds_types) |-> NoneVal])

-----------------------------------------------------------------------------
(* 4.4 Physical-drive checker *)

TEMPERATURE_LIMIT_C_WA == 60
TEMPERATURE_LIMIT_C_CR == 80
\* int((60 * 9/5) + 32) and int((80 * 9/5) + 32)
TEMPERATURE_LIMIT_F_WA == 140
TEMPERATURE_LIMIT_F_CR == 176
ERROR_LIMIT_W == 1
ERROR_LIMIT_C == 11

pd_temp_limit_wa ==
    IF USE_FAHRENHEIT THEN TEMPERATURE_LIMIT_F_WA ELSE TEMPERATURE_LIMIT_C_WA

pd_temp_limit_cr ==
    IF USE_FAHRENHEIT THEN TEMPERATURE_LIMIT_F_CR ELSE TEMPERATURE_LIMIT_C_CR

\* the state tags of the model's rows, and each in lower case: the matches of
\* lines 398-419 ignore case
lower(tag) ==
    CASE tag = "GHS" -> "ghs"       [] tag = "DHS" -> "dhs"
      [] tag = "Onln" -> "onln"     [] tag = "JBOD" -> "jbod"
      [] tag = "UGood" -> "ugood"   [] tag = "UGShld" -> "ugshld"
      [] tag = "Cpybck" -> "cpybck" [] tag = "Rbld" -> "rbld"
      [] tag = "Offln" -> "offln"   [] tag = "UBad" -> "ubad"
      [] OTHER -> tag

\* Lines 385-396: pd_state from the thresholds.  x >= limit raises TypeError
\* when x is None; `or` does not evaluate what follows a true operand.
\* a plausible slip: > for >=
pd_thresholds_mut(pd_temp, pd_smart_flag, pd_media_err, pd_other_err, pd_predictive_err) ==
    LET first ==
            IF pd_temp.v > pd_temp_limit_cr THEN Ok(NAGIOS_CRITICAL)
            ELSE IF pd_media_err.none THEN Raise("TypeError")
            ELSE IF pd_media_err.v > ERROR_LIMIT_C THEN Ok(NAGIOS_CRITICAL)
            ELSE IF pd_predictive_err.none THEN Raise("TypeError")
            ELSE IF pd_predictive_err.v > ERROR_LIMIT_C THEN Ok(NAGIOS_CRITICAL)
            ELSE IF \/ pd_temp.v > pd_temp_limit_wa
                    \/ pd_media_err.v > ERROR_LIMIT_W
                    \/ pd_predictive_err.v > ERROR_LIMIT_W
                    \/ (~pd_smart_flag.none /\ pd_smart_flag.v)
                 THEN Ok(NAGIOS_WARNING)
            ELSE Ok(NAGIOS_OK)
    IN  IF first.err \/ IGNORE_OTHERS THEN first
        ELSE IF pd_other_err.none THEN Raise("TypeError")
        ELSE IF pd_other_err.v > ERROR_LIMIT_C
             THEN Ok(handle_nagios_codes(first.v, NAGIOS_CRITICAL))
        ELSE IF pd_other_err.v > ERROR_LIMIT_W
             THEN Ok(handle_nagios_codes(first.v, NAGIOS_WARNING))
        ELSE first

pd_thresholds(pd_temp, pd_smart_flag, pd_media_err, pd_other_err, pd_predictive_err) ==
    LET first ==
            IF pd_temp.v >= pd_temp_limit_cr
            THEN Ok(handle_nagios_codes(NAGIOS_OK, NAGIOS_CRITICAL))
            ELSE IF pd_media_err.none THEN Raise("TypeError")
            ELSE IF pd_media_err.v >= ERROR_LIMIT_C
            THEN Ok(handle_nagios_codes(NAGIOS_OK, NAGIOS_CRITICAL))
            ELSE IF pd_predictive_err.none THEN Raise("TypeError")
            ELSE IF pd_predictive_err.v >= ERROR_LIMIT_C
            THEN Ok(handle_nagios_codes(NAGIOS_OK, NAGIOS_CRITICAL))
            ELSE IF \/ pd_temp.v >= pd_temp_limit_wa
                    \/ pd_media_err.v >= ERROR_LIMIT_W
                    \/ pd_predictive_err.v >= ERROR_LIMIT_W
                    \/ (~pd_smart_flag.none /\ pd_smart_flag.v)
                 THEN Ok(handle_nagios_codes(NAGIOS_OK, NAGIOS_WARNING))
            ELSE Ok(NAGIOS_OK)
    IN  IF first.err \/ IGNORE_OTHERS THEN first
        ELSE IF pd_other_err.none THEN Raise("TypeError")
        ELSE IF pd_other_err.v >= ERROR_LIMIT_C
             THEN Ok(handle_nagios_codes(first.v, NAGIOS_CRITICAL))
        ELSE IF pd_other_err.v >= ERROR_LIMIT_W
             THEN Ok(handle_nagios_codes(first.v, NAGIOS_WARNING))
        ELSE first

\* a plausible slip: the final else of the chain only labels the drive
pd_role_mut(pd_state, tag) ==
    LET t == lower(tag)
    IN  CASE t \in {"ghs", "dhs"} ->
                [state |-> pd_state, hotspare |-> TRUE, what |-> "PD (hot spare)"]
          [] t \in {"onln", "jbod"} ->
                [state |-> pd_state, hotspare |-> FALSE, what |-> "PD"]
          [] t \in {"ugood", "ugshld"} ->
                [state |-> IF ~IGNORE_UGOOD
                           THEN handle_nagios_codes(pd_state, NAGIOS_WARNING)
                           ELSE pd_state,
                 hotspare |-> FALSE, what |-> "PD (Unconfigured Good)"]
          [] t \in {"cpybck", "rbld"} ->
                [state |-> handle_nagios_codes(pd_state, NAGIOS_WARNING),
                 hotspare |-> FALSE, what |-> "PD (CopyBack or Rebuild)"]
          [] OTHER ->
                [state |-> pd_state, hotspare |-> FALSE, what |-> "PD (other)"]

\* Lines 398-424: what the state tag of the row adds
pd_role(pd_state, tag) ==
    LET t == lower(tag)
    IN  CASE t \in {"ghs", "dhs"} ->
                [state |-> pd_state, hotspare |-> TRUE, what |-> "PD (hot spare)"]
          [] t \in {"onln", "jbod"} ->
                [state |-> pd_state, hotspare |-> FALSE, what |-> "PD"]
          [] t \in {"ugood", "ugshld"} ->
                [state |-> IF ~IGNORE_UGOOD
                           THEN handle_nagios_codes(pd_state, NAGIOS_WARNING)
                           ELSE pd_state,
                 hotspare |-> FALSE, what |-> "PD (Unconfigured Good)"]
          [] t \in {"cpybck", "rbld"} ->
                [state |-> handle_nagios_codes(pd_state, NAGIOS_WARNING),
                 hotspare |-> FALSE, what |-> "PD (CopyBack or Rebuild)"]
          [] OTHER ->
                [state |-> handle_nagios_codes(pd_state, NAGIOS_CRITICAL),
                 hotspare |-> FALSE, what |-> "PD (other)"]

\* One pass of the loop of lines 359-449 for the row pd_line, whose report is
\* report.  acc holds the function's locals; acc.drives records, per row, the
\* slot, the tag, pd_state after line 396 and pd_state after line 424.
pd_row(acc, pd_controller, pd_enclosure, pd_line, report) ==
    LET pd_slot == pd_line.slot
        pd_id == <<pd_controller, pd_enclosure, pd_slot>>
        stored(counters, role) ==
            LET pd_state == role.state
            IN  Ok([empty_slots |-> acc.empty_slots \ {pd_slot},
                    exit_code |-> handle_nagios_codes(acc.exit_code, pd_state),
                    out |-> IF pd_state = NAGIOS_CRITICAL
                            THEN Append(acc.out, pd_id) ELSE acc.out,
                    out_wa |-> IF pd_state = NAGIOS_WARNING
                               THEN Append(acc.out_wa, pd_id) ELSE acc.out_wa,
                    long |-> IF pd_state \in {NAGIOS_OK, NAGIOS_WARNING, NAGIOS_CRITICAL}
                             THEN Append(acc.long,
                                      Line(prep[pd_state + 1], role.what, pd_id))
                             ELSE acc.long,
                    hotspare |-> acc.hotspare \/ role.hotspare,
                    drives |-> Append(acc.drives,
                                 [slot |-> pd_slot, tag |-> pd_line.state,
                                  counters |-> counters, state |-> pd_state])])
        judged(got) ==
            LET pd_manufacturer == got[A_MANUFACTURER]
                pd_temp == got[A_TEMPERATURE]
                pd_smart_flag == got[A_SMART]
            IN  \* match() of None (line 380), format of None (line 382)
                IF pd_manufacturer.none \/ pd_temp.none THEN Raise("TypeError")
                ELSE ValueOf({IF counters.err THEN counters
                              \* int(None) (line 448)
                              ELSE IF pd_smart_flag.none THEN Raise("TypeError")
                              ELSE ValueOf({stored(counters.v, role) :
                                       role \in {pd_role(counters.v, pd_line.state)}}) :
                         counters \in {pd_thresholds(pd_temp, pd_smart_flag, got[A_MEDIA],
                                                     got[A_OTHER], got[A_PREDICTIVE])}})
    IN  IF pd_slot \notin acc.empty_slots THEN Raise("KeyError")
        ELSE ValueOf({IF got.err THEN got ELSE judged(got.v) :
                 got \in {get_drive_state(report)}})

RECURSIVE pd_rows(_, _, _, _, _, _)
pd_rows(acc, pd_controller, pd_enclosure, pd_lines, reports, i) ==
    IF i > Len(pd_lines) THEN Ok(acc)
    ELSE ValueOf({IF r.err THEN r
                  ELSE pd_rows(r.v, pd_controller, pd_enclosure, pd_lines, reports, i + 1) :
             r \in {pd_row(acc, pd_controller, pd_enclosure, pd_lines[i], reports[i])}})

\* the loop of lines 451-458 over the slots detect_empty_slots returned
RECURSIVE pd_missing_loop(_, _, _, _)
pd_missing_loop(acc, pd_controller, pd_enclosure, missing) ==
    IF missing = <<>> THEN acc
    ELSE LET id == <<pd_controller, pd_enclosure, Head(missing)>>
         IN  pd_missing_loop(
                 IF ~MISSING_OK
                 THEN [acc EXCEPT !.out_wa = Append(@, id),
                                  !.exit_code = handle_nagios_codes(@, NAGIOS_WARNING),
                                  !.long = Append(@, Line("WA", "PD (Missing)", id))]
                 ELSE [acc EXCEPT !.long = Append(@, Line("OK", "PD (Missing)", id))],
                 pd_controller, pd_enclosure, Tail(missing))

\* get_drives: text is the output of /cX/eY/sall show, reports[i] the output
\* of "show all" for the drive of the i-th row
PD_HEADER == "EID:Slt DID State"

get_drives(pd_controller, pd_enclosure, text, reports) ==
    LET pd_lines == find_relevant_lines(text, PD_HEADER)
        start == [empty_slots |-> slot_range, exit_code |-> NAGIOS_OK,
                  out |-> <<>>, out_wa |-> <<>>, long |-> <<>>,
                  hotspare |-> FALSE, drives |-> <<>>]
        result(done) ==
            Ok([exit_code |-> done.exit_code, out |-> done.out,
                long |-> done.long, out_wa |-> done.out_wa,
                hotspare |-> done.hotspare, count |-> Len(pd_lines),
                drives |-> done.drives])
        finish(r) ==
            ValueOf({ValueOf({result(done) :
                         done \in {pd_missing_loop(r.v, pd_controller, pd_enclosure,
                                                   missing)}}) :
                missing \in {detect_empty_slots(r.v.empty_slots)}})
    IN  ValueOf({IF r.err THEN r ELSE finish(r) :
            r \in {pd_rows(start, pd_controller, pd_enclosure, pd_lines, reports, 1)}})

\* a table as the tool prints it: header, rule, rows, rule
Table(header, rows) ==
    <<[k |-> "hdr", h |-> header], [k |-> "dash", n |-> MIN_DASHES]>>
    \o rows \o <<[k |-> "dash", n |-> MIN_DASHES]>>

-----------------------------------------------------------------------------
(* Specification of one drive: get_drives on an enclosure with one row in  *)
(* slot 0, for every state tag and every value of the drive's attributes   *)

Tags ==
    {"GHS", "DHS", "Onln", "JBOD", "UGood", "UGShld", "Cpybck", "Rbld",
     "ugood", "Offln", "UBad"}

Absent == [t |-> "absent"]

Word(w) == [t |-> "word", w |-> w]

Num(n) == [t |-> "num", v |-> n]

\* "<c>C (<f>F)"
Temp(c) == [t |-> "temp", c |-> c, f |-> (c * 9) \div 5 + 32]

\* temperatures and counts on both sides of each limit
Temperatures ==
    {TEMPERATURE_LIMIT_C_WA - 1, TEMPERATURE_LIMIT_C_WA,
     TEMPERATURE_LIMIT_C_CR - 1, TEMPERATURE_LIMIT_C_CR}

Counts == {0, ERROR_LIMIT_W, ERROR_LIMIT_C - 1, ERROR_LIMIT_C}

\* the report of a drive: one line per attribute that is not Absent
Report(attrs) ==
    SelectSeq([a \in 1..Len(ds_types) |-> [a |-> a, v |-> attrs[a]]],
              LAMBDA line : line.v # Absent)

Attrs(temp, smart, media, other, predictive) ==
    <<Word("ATA"), Word("MODEL"), Word("SERIAL"), temp, smart, media, other, predictive>>

DriveRow(slot, tag) == [k |-> "row", slot |-> slot, state |-> tag]

InitDrive ==
    /\ IGNORE_UGOOD \in BOOLEAN /\ IGNORE_OTHERS \in BOOLEAN
    /\ USE_FAHRENHEIT \in BOOLEAN
    /\ EXPECT_BATTERY = TRUE /\ EXPECT_HOTSPARE = TRUE /\ MISSING_OK = FALSE
    /\ MISSING_OK_LIST = {}
    /\ SLOT_START = 0
    /\ arg \in [tag : Tags,
                temp : {Temp(c) : c \in Temperatures} \cup {Word("hot"), Absent},
                smart : {[t |-> "yes"], [t |-> "no"]},
                media : {Num(n) : n \in Counts} \cup {[t |-> "na"], Word("many")},
                other : {Num(n) : n \in Counts} \cup {Word("many")},
                predictive : {Num(n) : n \in Counts} \cup {Absent}]
    /\ ret = <<>>
    /\ ProcInit("call") /\ LocalsInit

GetDrive ==
    Return(get_drives(0, 0, Table(PD_HEADER, <<DriveRow(0, arg.tag)>>),
               <<Report(Attrs(arg.temp, arg.smart, arg.media, arg.other,
                              arg.predictive))>>))

NextDrive == GetDrive

SpecDrive == InitDrive /\ [][NextDrive]_vars

-----------------------------------------------------------------------------
(* 4.4 Controller enumeration, virtual drives, enclosures *)

CTL_HEADER == "Ctl Model Ports"
VD_HEADER == "DG/VD TYPE State"
ENC_HEADER == "EID State Slots PD"

\* Lines 135-139: count is the number of the first "Controller Count = n"
\* line of the ctrlcount report, NoneVal when there is no such line.
\* Lines 140-146: the first column of every row of the listing; a count that
\* differs ends the probe.
\* a plausible slip: a report without a count line counts as a mismatch
get_controllers_nocount_mut(count, text) ==
    LET controller_count == IF count.none THEN -1 ELSE count.v
        lines == find_relevant_lines(text, CTL_HEADER)
        all_controllers == [i \in 1..Len(lines) |-> lines[i].ctl]
    IN  IF Len(all_controllers) # controller_count
        THEN [exit |-> TRUE,
              end |-> end(NAGIOS_UNKNOWN, "controller count mismatch", <<>>)]
        ELSE [exit |-> FALSE, v |-> all_controllers]

\* a plausible slip: the cross-check accepts a listing shorter than the count
get_controllers_mut(count, text) ==
    LET controller_count == IF count.none THEN 0 ELSE count.v
        lines == find_relevant_lines(text, CTL_HEADER)
        all_controllers == [i \in 1..Len(lines) |-> lines[i].ctl]
    IN  IF Len(all_controllers) > controller_count
        THEN [exit |-> TRUE,
              end |-> end(NAGIOS_UNKNOWN, "controller count mismatch", <<>>)]
        ELSE [exit |-> FALSE, v |-> all_controllers]

get_controllers(count, text) ==
    LET controller_count == IF count.none THEN 0 ELSE count.v
        lines == find_relevant_lines(text, CTL_HEADER)
        all_controllers == [i \in 1..Len(lines) |-> lines[i].ctl]
    IN  IF Len(all_controllers) # controller_count
        THEN [exit |-> TRUE,
              end |-> end(NAGIOS_UNKNOWN, "controller count mismatch", <<>>)]
        ELSE [exit |-> FALSE, v |-> all_controllers]

\* Lines 250-270 for one row: state is column 2, cc column 7 of the row.
\* match('on', cc, IGNORECASE) ignores case; match('pdgd', state) and
\* match('dgrd', state) do not.
cc_on(cc) == cc \in {"ON", "On", "on"}

RECURSIVE vds_loop(_, _, _)
vds_loop(vd_controller, vd_lines, acc) ==
    IF vd_lines = <<>> THEN acc
    ELSE LET vd_line == Head(vd_lines)
             id == <<vd_controller, vd_line.vd>>
             no_cc == ~cc_on(vd_line.cc)
             pdgd == vd_line.state = "pdgd"
             dgrd == vd_line.state = "dgrd"
             code1 == IF no_cc THEN handle_nagios_codes(acc.exit_code, NAGIOS_WARNING)
                      ELSE acc.exit_code
             code2 == IF pdgd THEN handle_nagios_codes(code1, NAGIOS_WARNING) ELSE code1
             code3 == IF dgrd THEN handle_nagios_codes(code2, NAGIOS_CRITICAL) ELSE code2
         IN  vds_loop(vd_controller, Tail(vd_lines),
                 [exit_code |-> code3,
                  out |-> acc.out \o (IF dgrd THEN <<id>> ELSE <<>>),
                  out_wa |-> acc.out_wa \o (IF no_cc THEN <<id>> ELSE <<>>)
                                        \o (IF pdgd THEN <<id>> ELSE <<>>),
                  long |-> acc.long
                       \o (IF no_cc THEN <<Line("WA", "VD no scheduled CC", id)>> ELSE <<>>)
                       \o (IF pdgd THEN <<Line("WA", "VD partialy degraded", id)>> ELSE <<>>)
                       \o (IF dgrd THEN <<Line("CR", "VD DEGRADED", id)>> ELSE <<>>)
                       \o (IF ~no_cc /\ ~pdgd /\ ~dgrd
                           THEN <<Line("OK", "VD", id)>> ELSE <<>>)])

get_vds(vd_controller, text) ==
    vds_loop(vd_controller, find_relevant_lines(text, VD_HEADER),
             [exit_code |-> NAGIOS_OK, out |-> <<>>, out_wa |-> <<>>, long |-> <<>>])

\* Lines 161-172: state is column 1, slots column 2, pd column 3 of the row
RECURSIVE enclosures_loop(_, _, _)
enclosures_loop(enc_controller, ge_lines, acc) ==
    IF ge_lines = <<>> THEN acc
    ELSE LET enclosure_list == Head(ge_lines)
             id == <<enc_controller, enclosure_list.eid>>
             bad == "OK" # enclosure_list.state
         IN  enclosures_loop(enc_controller, Tail(ge_lines),
                 [ecode |-> IF bad THEN handle_nagios_codes(acc.ecode, NAGIOS_CRITICAL)
                            ELSE acc.ecode,
                  enclosures |-> Append(acc.enclosures,
                                    <<enclosure_list.eid, enclosure_list.slots,
                                      enclosure_list.pd>>),
                  out |-> IF bad THEN Append(acc.out, id) ELSE acc.out,
                  long |-> Append(acc.long,
                               Line(IF bad THEN "CR" ELSE "OK", "Enclosure", id))])

get_enclosures(enc_controller, text) ==
    enclosures_loop(enc_controller, find_relevant_lines(text, ENC_HEADER),
                    [ecode |-> NAGIOS_OK, enclosures |-> <<>>, out |-> <<>>,
                     long |-> <<>>])

-----------------------------------------------------------------------------
(* 4.5 Aggregator *)

\* The summary text is the sequence of its blank-separated pieces: a tag, the
\* CRITICAL identifiers after "CR-", the WARNING identifiers after "WA-", "OK;"
Piece(t, ids) == [t |-> t, ids |-> ids]

\* hf_state is <<code of the facet, tag, CR identifiers, WA identifiers>>
\* a plausible slip: the facet's code replaces the code folded so far
handle_final_state_mut(hf_ecode, hf_state) == <<hf_state[1], <<>>>>

\* a plausible slip: the foreign configuration facet is shown like the others
handle_final_state_fc_mut(hf_ecode, hf_state) ==
    <<handle_nagios_codes(hf_ecode, hf_state[1]),
      <<Piece(hf_state[2], <<>>)>>
      \o (IF hf_state[3] # <<>> THEN <<Piece("CR-", hf_state[3])>> ELSE <<>>)
      \o (IF hf_state[4] # <<>> THEN <<Piece("WA-", hf_state[4])>> ELSE <<>>)
      \o (IF hf_state[1] = NAGIOS_OK THEN <<Piece("OK;", <<>>)>> ELSE <<>>)>>

handle_final_state(hf_ecode, hf_state) ==
    LET hf_ecode_specific == hf_state[1]
        hf_out_tag == hf_state[2]
        hf_out == hf_state[3]
        hf_out_wa == hf_state[4]
        hf_out_final ==
            <<Piece(hf_out_tag, <<>>)>>
            \o (IF hf_out # <<>> THEN <<Piece("CR-", hf_out)>> ELSE <<>>)
            \o (IF hf_out_wa # <<>> THEN <<Piece("WA-", hf_out_wa)>> ELSE <<>>)
            \o (IF hf_ecode_specific = NAGIOS_OK THEN <<Piece("OK;", <<>>)>> ELSE <<>>)
    IN  <<handle_nagios_codes(hf_ecode, hf_ecode_specific),
          IF hf_ecode_specific = NAGIOS_OK /\ hf_out_tag = "FC" THEN <<>>
          ELSE hf_out_final>>

\* the loop of lines 643-655 over the tuple of facet states
RECURSIVE fold_final(_, _, _, _)
fold_final(states, i, ecode, state) ==
    IF i > Len(states) THEN <<ecode, state>>
    ELSE ValueOf({fold_final(states, i + 1, r[1], state \o r[2]) :
             r \in {handle_final_state(ecode, states[i])}})

-----------------------------------------------------------------------------
(* The driver (lines 583-666) *)

\* what the driver's runs are given: at most this many controllers,
\* enclosures per controller, virtual drives per controller, drive rows per
\* enclosure, and drive rows in slots 0..MaxRowSlot
MaxRunCtl == 1
MaxEnc == 1
MaxVd == 1
MaxDrives == 1
MaxRowSlot == 1

\* drive reports of a run: a clean drive, one over each kind of limit, and
\* one whose media error count is no number
CleanReport ==
    Report(Attrs(Temp(TEMPERATURE_LIMIT_C_WA - 1), [t |-> "no"], Num(0), Num(0), Num(0)))

RunReports ==
    {CleanReport,
     Report(Attrs(Temp(TEMPERATURE_LIMIT_C_CR), [t |-> "no"], Num(0), Num(0), Num(0))),
     Report(Attrs(Temp(TEMPERATURE_LIMIT_C_WA - 1), [t |-> "no"], Num(ERROR_LIMIT_W), Num(0), Num(0))),
     Report(Attrs(Temp(TEMPERATURE_LIMIT_C_WA - 1), [t |-> "no"], Num(0), Num(ERROR_LIMIT_C), Num(0))),
     Report(Attrs(Temp(TEMPERATURE_LIMIT_C_WA - 1), [t |-> "no"], Word("many"), Num(0), Num(0)))}

\* rows of the tables of a run
CtlRows == {[i \in 1..k |-> [k |-> "row", ctl |-> i - 1]] : k \in 0..MaxRunCtl}

\* battery and CacheVault reports of a run: a healthy battery, no battery,
\* and a failed CacheVault
BattCases ==
    {[bbu |-> [use_cv |-> FALSE, optimal |-> TRUE, absent |-> FALSE],
      cv |-> [optimal |-> TRUE, absent |-> FALSE]],
     [bbu |-> [use_cv |-> FALSE, optimal |-> FALSE, absent |-> TRUE],
      cv |-> [optimal |-> TRUE, absent |-> FALSE]],
     [bbu |-> [use_cv |-> TRUE, optimal |-> FALSE, absent |-> FALSE],
      cv |-> [optimal |-> FALSE, absent |-> FALSE]]}

VdRows ==
    SeqsUpTo([k : {"row"}, vd : {0}, state : {"Optl", "Pdgd", "dgrd"},
              cc : {"ON", "OFF"}], MaxVd)

\* <<State, Slots, PD>> of an enclosure row
EncCases ==
    {c \in {"OK", "Failed"} \X (1..(MaxDrives + 1)) \X (0..MaxDrives) :
        c[1] = "Failed" => c[2] = c[3]}

EncRows ==
    {[i \in 1..k |-> [k |-> "row", eid |-> i - 1, state |-> c[i][1],
                      slots |-> c[i][2], pd |-> c[i][3]]] :
        k \in 0..MaxEnc, c \in [1..MaxEnc -> EncCases]}

\* a drive row and its report: every tag on a clean drive, and every report
\* on an online drive and on a drive with a tag that is not known
DriveCases ==
    {[row |-> DriveRow(slot, tag), report |-> CleanReport] :
        slot \in 0..MaxRowSlot, tag \in Tags}
    \cup {[row |-> DriveRow(slot, tag), report |-> report] :
        slot \in 0..MaxRowSlot, tag \in {"Onln", "Offln"}, report \in RunReports}

\* drive rows in distinct slots, each with its report
DriveRows ==
    {rows \in SeqsUpTo(DriveCases, MaxDrives) :
        \A i, j \in 1..Len(rows) : i # j => rows[i].row.slot # rows[j].row.slot}

\* Init: the arguments are parsed (lines 540-552); the unit and the first
\* slot keep their defaults
Init ==
    /\ EXPECT_BATTERY \in BOOLEAN /\ EXPECT_HOTSPARE \in BOOLEAN
    /\ IGNORE_UGOOD \in BOOLEAN /\ IGNORE_OTHERS \in BOOLEAN
    /\ MISSING_OK \in BOOLEAN
    /\ MISSING_OK_LIST = {}
    /\ USE_FAHRENHEIT = FALSE /\ SLOT_START = 0
    /\ arg = <<>> /\ ret = <<>>
    /\ ProcInit("check_storcli") /\ LocalsInit

\* end() and the interpreter's exit on an uncaught exception
Exit(e) ==
    /\ pc' = "exited"
    /\ printed' = <<[state |-> e.state, output |-> e.output, long |-> e.long]>>
    /\ exit_status' = e.status

Crash ==
    /\ pc' = "crashed"
    /\ printed' = printed
    /\ exit_status' = PY_UNCAUGHT_EXIT

\* check_storcli (lines 89-109)
CheckStorcli ==
    /\ pc = "check_storcli"
    /\ \E problem \in {"none", "missing", "not executable", "version error",
                       "version empty"} :
          IF problem = "none"
          THEN pc' = "get_controllers" /\ UNCHANGED <<printed, exit_status>>
          ELSE Exit(end(NAGIOS_UNKNOWN, problem, <<>>))
    /\ UNCHANGED <<arg, ret, flagVars, issued, localVars>>

\* line 584
GetControllers ==
    /\ pc = "get_controllers"
    /\ issued' = issued \cup {"show ctrlcount", "show"}
    /\ \E count \in {NoneVal} \cup {Val(n) : n \in 0..MaxRunCtl}, rows \in CtlRows :
          \E r \in {get_controllers(count, Table(CTL_HEADER, rows))} :
              /\ seen' = [call |-> "get_controllers", count |-> count, rows |-> rows]
              /\ IF r.exit
                 THEN Exit(r.end) /\ UNCHANGED CONTROLLERS
                 ELSE /\ CONTROLLERS' = r.v
                      /\ pc' = "check_bbus"
                      /\ UNCHANGED <<printed, exit_status>>
    /\ UNCHANGED <<arg, ret, flagVars, ctl, enclosures, enc, HAS_HOTSPARE,
                   BBU_EXIT_CODE, BBU_OUT, BBU_OUT_LONG,
                   ALL_VDS_EXIT_CODE, ALL_VDS_OUT, ALL_VDS_OUT_WA, ALL_VDS_OUT_LONG,
                   ALL_ENCLOSURES_EXIT_CODE, ALL_ENCLOSURES_OUT, ALL_ENCLOSURES_OUT_LONG,
                   ALL_DISKS_EXIT_CODE, ALL_DISKS_OUT, ALL_DISKS_OUT_WA, ALL_DISKS_OUT_LONG,
                   ALL_HOTSPARES_EXIT_CODE, ALL_HOTSPARES_OUT, ALL_HOTSPARES_OUT_LONG,
                   ALL_FOREIGN_EXIT_CODE, ALL_FOREIGN_OUT, ALL_FOREIGN_OUT_LONG,
                   EXIT_CODE, EXIT_STATE>>

\* line 585, and the start of the loop of line 586
CheckBbusAll ==
    /\ pc = "check_bbus"
    /\ \E batt \in [Range(CONTROLLERS) -> BattCases] :
          LET b == [x \in Range(CONTROLLERS) |-> batt[x].bbu]
              c == [x \in Range(CONTROLLERS) |-> batt[x].cv]
          IN  \E r \in {check_bbus(CONTROLLERS, b, c)} :
              /\ BBU_EXIT_CODE' = r.ecode
              /\ BBU_OUT' = r.out
              /\ BBU_OUT_LONG' = r.long
              /\ issued' = issued
                    \cup (IF CONTROLLERS # <<>> THEN {"bbu show"} ELSE {})
                    \cup (IF \E x \in Range(CONTROLLERS) : b[x].use_cv
                          THEN {"cv show"} ELSE {})
    /\ ctl' = 1
    /\ pc' = IF CONTROLLERS = <<>> THEN "aggregate" ELSE "get_vds"
    /\ UNCHANGED <<arg, ret, flagVars, printed, exit_status,
                   CONTROLLERS, enclosures, enc, HAS_HOTSPARE,
                   ALL_VDS_EXIT_CODE, ALL_VDS_OUT, ALL_VDS_OUT_WA, ALL_VDS_OUT_LONG,
                   ALL_ENCLOSURES_EXIT_CODE, ALL_ENCLOSURES_OUT, ALL_ENCLOSURES_OUT_LONG,
                   ALL_DISKS_EXIT_CODE, ALL_DISKS_OUT, ALL_DISKS_OUT_WA, ALL_DISKS_OUT_LONG,
                   ALL_HOTSPARES_EXIT_CODE, ALL_HOTSPARES_OUT, ALL_HOTSPARES_OUT_LONG,
                   ALL_FOREIGN_EXIT_CODE, ALL_FOREIGN_OUT, ALL_FOREIGN_OUT_LONG,
                   EXIT_CODE, EXIT_STATE, seen>>

\* lines 587-597
GetVds ==
    /\ pc = "get_vds"
    /\ HAS_HOTSPARE' = FALSE
    /\ issued' = issued \cup {"vall show"}
    /\ \E rows \in VdRows :
          \E r \in {get_vds(CONTROLLERS[ctl], Table(VD_HEADER, rows))} :
              /\ ALL_VDS_OUT' = ALL_VDS_OUT \o r.out
              /\ ALL_VDS_OUT_LONG' = ALL_VDS_OUT_LONG \o r.long
              /\ ALL_VDS_OUT_WA' = ALL_VDS_OUT_WA \o r.out_wa
              /\ ALL_VDS_EXIT_CODE' = handle_nagios_codes(ALL_VDS_EXIT_CODE, r.exit_code)
    /\ pc' = "get_enclosures"
    /\ UNCHANGED <<arg, ret, flagVars, printed, exit_status,
                   CONTROLLERS, ctl, enclosures, enc,
                   BBU_EXIT_CODE, BBU_OUT, BBU_OUT_LONG,
                   ALL_ENCLOSURES_EXIT_CODE, ALL_ENCLOSURES_OUT, ALL_ENCLOSURES_OUT_LONG,
                   ALL_DISKS_EXIT_CODE, ALL_DISKS_OUT, ALL_DISKS_OUT_WA, ALL_DISKS_OUT_LONG,
                   ALL_HOTSPARES_EXIT_CODE, ALL_HOTSPARES_OUT, ALL_HOTSPARES_OUT_LONG,
                   ALL_FOREIGN_EXIT_CODE, ALL_FOREIGN_OUT, ALL_FOREIGN_OUT_LONG,
                   EXIT_CODE, EXIT_STATE, seen>>

\* lines 603-608
GetEnclosures ==
    /\ pc = "get_enclosures"
    /\ issued' = issued \cup {"eall show"}
    /\ \E rows \in EncRows :
          \E r \in {get_enclosures(CONTROLLERS[ctl], Table(ENC_HEADER, rows))} :
              /\ ALL_ENCLOSURES_EXIT_CODE' =
                    handle_nagios_codes(ALL_ENCLOSURES_EXIT_CODE, r.ecode)
              /\ ALL_ENCLOSURES_OUT' = ALL_ENCLOSURES_OUT \o r.out
              /\ ALL_ENCLOSURES_OUT_LONG' = ALL_ENCLOSURES_OUT_LONG \o r.long
              /\ enclosures' = r.enclosures
              /\ pc' = IF r.enclosures = <<>> THEN "finish_controller" ELSE "get_drives"
    /\ enc' = 1
    /\ UNCHANGED <<arg, ret, flagVars, printed, exit_status,
                   CONTROLLERS, ctl, HAS_HOTSPARE,
                   BBU_EXIT_CODE, BBU_OUT, BBU_OUT_LONG,
                   ALL_VDS_EXIT_CODE, ALL_VDS_OUT, ALL_VDS_OUT_WA, ALL_VDS_OUT_LONG,
                   ALL_DISKS_EXIT_CODE, ALL_DISKS_OUT, ALL_DISKS_OUT_WA, ALL_DISKS_OUT_LONG,
                   ALL_HOTSPARES_EXIT_CODE, ALL_HOTSPARES_OUT, ALL_HOTSPARES_OUT_LONG,
                   ALL_FOREIGN_EXIT_CODE, ALL_FOREIGN_OUT, ALL_FOREIGN_OUT_LONG,
                   EXIT_CODE, EXIT_STATE, seen>>

\* a plausible slip: only a surplus of drive rows is reported
disk_count_mismatch_mut(drivecount, enclosure) == drivecount > enclosure[3]

\* line 622: enclosure is the tuple (EID, Slots, PD) of line 171
disk_count_mismatch(drivecount, enclosure) == drivecount # enclosure[3]

\* lines 615-626 for the enclosure enclosures[enc]; an exception of
\* get_drives is caught nowhere
GetDrives ==
    /\ pc = "get_drives"
    /\ \E drives \in DriveRows :
          LET rows == [i \in 1..Len(drives) |-> drives[i].row]
              reports == [i \in 1..Len(drives) |-> drives[i].report]
              controller == CONTROLLERS[ctl]
              enclosure == enclosures[enc]
          IN  \E r \in {get_drives(controller, enclosure[1], Table(PD_HEADER, rows), reports)} :
              LET mismatch == disk_count_mismatch(r.v.count, enclosure)
                  code == handle_nagios_codes(ALL_DISKS_EXIT_CODE, r.v.exit_code)
              IN  /\ issued' = issued \cup {"sall show"}
                        \cup (IF rows # <<>> THEN {"show all"} ELSE {})
                  /\ IF r.err
                     THEN /\ Crash
                          /\ seen' = [call |-> "get_drives", err |-> TRUE, exc |-> r.exc,
                                      controller |-> controller, enclosure |-> enclosure,
                                      rows |-> rows, reports |-> reports]
                          /\ UNCHANGED <<ALL_DISKS_EXIT_CODE, ALL_DISKS_OUT, ALL_DISKS_OUT_WA,
                                         ALL_DISKS_OUT_LONG, HAS_HOTSPARE, enc>>
                     ELSE /\ ALL_DISKS_OUT_LONG' = ALL_DISKS_OUT_LONG \o r.v.long
                                \* line 624 is no f-string: the text names no enclosure
                                \o (IF mismatch
                                    THEN <<Line("WA", "Enclosure disk count", <<>>)>>
                                    ELSE <<>>)
                          /\ ALL_DISKS_OUT' = ALL_DISKS_OUT \o r.v.out
                          /\ ALL_DISKS_OUT_WA' = ALL_DISKS_OUT_WA \o r.v.out_wa
                                \o (IF mismatch THEN <<<<controller, enclosure[1]>>>> ELSE <<>>)
                          /\ HAS_HOTSPARE' = (r.v.hotspare \/ HAS_HOTSPARE)
                          /\ ALL_DISKS_EXIT_CODE' =
                                IF mismatch THEN handle_nagios_codes(code, NAGIOS_WARNING)
                                ELSE code
                          /\ seen' = [call |-> "get_drives", err |-> FALSE,
                                      controller |-> controller, enclosure |-> enclosure,
                                      rows |-> rows, reports |-> reports, result |-> r.v]
                          /\ enc' = enc + 1
                          /\ pc' = IF enc = Len(enclosures) THEN "finish_controller"
                                   ELSE "get_drives"
                          /\ UNCHANGED <<printed, exit_status>>
    /\ UNCHANGED <<arg, ret, flagVars, CONTROLLERS, ctl, enclosures,
                   BBU_EXIT_CODE, BBU_OUT, BBU_OUT_LONG,
                   ALL_VDS_EXIT_CODE, ALL_VDS_OUT, ALL_VDS_OUT_WA, ALL_VDS_OUT_LONG,
                   ALL_ENCLOSURES_EXIT_CODE, ALL_ENCLOSURES_OUT, ALL_ENCLOSURES_OUT_LONG,
                   ALL_HOTSPARES_EXIT_CODE, ALL_HOTSPARES_OUT, ALL_HOTSPARES_OUT_LONG,
                   ALL_FOREIGN_EXIT_CODE, ALL_FOREIGN_OUT, ALL_FOREIGN_OUT_LONG,
                   EXIT_CODE, EXIT_STATE>>

\* lines 627-640: the hot spare of the controller, its foreign configuration,
\* and the step to the next controller
FinishController ==
    /\ pc = "finish_controller"
    /\ issued' = issued \cup {"fall show"}
    /\ IF ~HAS_HOTSPARE /\ EXPECT_HOTSPARE
       THEN /\ ALL_HOTSPARES_OUT' = Append(ALL_HOTSPARES_OUT, <<CONTROLLERS[ctl]>>)
            /\ ALL_HOTSPARES_OUT_LONG' =
                  Append(ALL_HOTSPARES_OUT_LONG, Line("WA", "HS missing", <<CONTROLLERS[ctl]>>))
            /\ ALL_HOTSPARES_EXIT_CODE' =
                  handle_nagios_codes(ALL_HOTSPARES_EXIT_CODE, NAGIOS_WARNING)
       ELSE IF ~HAS_HOTSPARE
       THEN /\ ALL_HOTSPARES_OUT_LONG' =
                  Append(ALL_HOTSPARES_OUT_LONG,
                         Line("OK", "HS missing, expected", <<CONTROLLERS[ctl]>>))
            /\ UNCHANGED <<ALL_HOTSPARES_OUT, ALL_HOTSPARES_EXIT_CODE>>
       ELSE UNCHANGED <<ALL_HOTSPARES_OUT, ALL_HOTSPARES_OUT_LONG, ALL_HOTSPARES_EXIT_CODE>>
    /\ \E no_foreign \in BOOLEAN :
          IF ~no_foreign
          THEN /\ ALL_FOREIGN_EXIT_CODE' =
                     handle_nagios_codes(ALL_FOREIGN_EXIT_CODE, NAGIOS_WARNING)
               /\ ALL_FOREIGN_OUT_LONG' =
                     Append(ALL_FOREIGN_OUT_LONG,
                            Line("WA", "Foreign configuration", <<CONTROLLERS[ctl]>>))
               /\ ALL_FOREIGN_OUT' = Append(ALL_FOREIGN_OUT, <<CONTROLLERS[ctl]>>)
          ELSE UNCHANGED <<ALL_FOREIGN_EXIT_CODE, ALL_FOREIGN_OUT_LONG, ALL_FOREIGN_OUT>>
    /\ ctl' = ctl + 1
    /\ pc' = IF ctl = Len(CONTROLLERS) THEN "aggregate" ELSE "get_vds"
    /\ UNCHANGED <<arg, ret, flagVars, printed, exit_status,
                   CONTROLLERS, enclosures, enc, HAS_HOTSPARE,
                   BBU_EXIT_CODE, BBU_OUT, BBU_OUT_LONG,
                   ALL_VDS_EXIT_CODE, ALL_VDS_OUT, ALL_VDS_OUT_WA, ALL_VDS_OUT_LONG,
                   ALL_ENCLOSURES_EXIT_CODE, ALL_ENCLOSURES_OUT, ALL_ENCLOSURES_OUT_LONG,
                   ALL_DISKS_EXIT_CODE, ALL_DISKS_OUT, ALL_DISKS_OUT_WA, ALL_DISKS_OUT_LONG,
                   EXIT_CODE, EXIT_STATE, seen>>

\* the tuple of lines 643-652
specific_states ==
    <<<<ALL_FOREIGN_EXIT_CODE, "FC", <<>>, ALL_FOREIGN_OUT>>,
      <<ALL_DISKS_EXIT_CODE, "PDs", ALL_DISKS_OUT, ALL_DISKS_OUT_WA>>,
      <<ALL_HOTSPARES_EXIT_CODE, "HS", <<>>, ALL_HOTSPARES_OUT>>,
      <<ALL_VDS_EXIT_CODE, "VDs", ALL_VDS_OUT, ALL_VDS_OUT_WA>>,
      <<ALL_ENCLOSURES_EXIT_CODE, "Enc", ALL_ENCLOSURES_OUT, <<>>>>,
      <<BBU_EXIT_CODE, "Batt", BBU_OUT, <<>>>>>>

\* lines 643-655
Aggregate ==
    /\ pc = "aggregate"
    /\ \E r \in {fold_final(specific_states, 1, EXIT_CODE, EXIT_STATE)} :
          EXIT_CODE' = r[1] /\ EXIT_STATE' = r[2]
    /\ pc' = "end"
    /\ UNCHANGED <<arg, ret, flagVars, printed, exit_status, issued,
                   CONTROLLERS, ctl, enclosures, enc, HAS_HOTSPARE,
                   BBU_EXIT_CODE, BBU_OUT, BBU_OUT_LONG,
                   ALL_VDS_EXIT_CODE, ALL_VDS_OUT, ALL_VDS_OUT_WA, ALL_VDS_OUT_LONG,
                   ALL_ENCLOSURES_EXIT_CODE, ALL_ENCLOSURES_OUT, ALL_ENCLOSURES_OUT_LONG,
                   ALL_DISKS_EXIT_CODE, ALL_DISKS_OUT, ALL_DISKS_OUT_WA, ALL_DISKS_OUT_LONG,
                   ALL_HOTSPARES_EXIT_CODE, ALL_HOTSPARES_OUT, ALL_HOTSPARES_OUT_LONG,
                   ALL_FOREIGN_EXIT_CODE, ALL_FOREIGN_OUT, ALL_FOREIGN_OUT_LONG, seen>>

\* lines 661-666
End ==
    /\ pc = "end"
    /\ Exit(end(EXIT_CODE, EXIT_STATE,
                ALL_FOREIGN_OUT_LONG \o ALL_DISKS_OUT_LONG \o ALL_HOTSPARES_OUT_LONG
                \o ALL_VDS_OUT_LONG \o ALL_ENCLOSURES_OUT_LONG \o BBU_OUT_LONG))
    /\ UNCHANGED <<arg, ret, flagVars, issued, localVars>>

Next ==
    \/ CheckStorcli
    \/ GetControllers
    \/ CheckBbusAll
    \/ GetVds
    \/ GetEnclosures
    \/ GetDrives
    \/ FinishController
    \/ Aggregate
    \/ End

Spec == Init /\ [][Next]_vars

-----------------------------------------------------------------------------
(* Specification of the virtual drives: get_vds on every listing of at most *)
(* MaxVdRows rows                                                           *)

MaxVdRows == 2

\* the State column as the tool prints it (Optl, Pdgd, Dgrd) and in lower case
VdStates == {"Optl", "Pdgd", "Dgrd", "pdgd", "dgrd"}

VdListings ==
    {[i \in 1..k |-> [k |-> "row", vd |-> i - 1, state |-> st[i], cc |-> cc[i]]] :
        k \in 0..MaxVdRows, st \in [1..MaxVdRows -> VdStates],
        cc \in [1..MaxVdRows -> {"ON", "OFF"}]}

InitVds ==
    /\ DefaultFlags
    /\ arg \in VdListings
    /\ ret = <<>>
    /\ ProcInit("call") /\ LocalsInit

GetVdsCall == Return(get_vds(0, Table(VD_HEADER, arg)))

NextVds == GetVdsCall

SpecVds == InitVds /\ [][NextVds]_vars

-----------------------------------------------------------------------------
(* Specification of the missing slots: get_drives on an enclosure whose     *)
(* listing shows clean online drives in the slots arg, for every            *)
(* --missingok and every --missingoklist over the slots 0..MaxListSlot      *)

MaxObservedSlot == 3
MaxListSlot == 2

\* lines 568-572: the triples of --missingoklist (controller, enclosure, slot)
MissingOkLists == SUBSET {<<0, 0, s>> : s \in 0..MaxListSlot}

InitMissing ==
    /\ EXPECT_BATTERY = TRUE /\ EXPECT_HOTSPARE = TRUE
    /\ IGNORE_UGOOD = FALSE /\ IGNORE_OTHERS = TRUE
    /\ USE_FAHRENHEIT = FALSE /\ SLOT_START = 0
    /\ MISSING_OK \in BOOLEAN
    /\ MISSING_OK_LIST \in MissingOkLists
    /\ arg \in SUBSET (0..MaxObservedSlot)
    /\ ret = <<>>
    /\ ProcInit("call") /\ LocalsInit

GetDrivesMissing ==
    \E slots \in {sorted(arg)} :
        Return(get_drives(0, 0,
                   Table(PD_HEADER, [i \in 1..Len(slots) |-> DriveRow(slots[i], "Onln")]),
                   [i \in 1..Len(slots) |-> CleanReport]))

NextMissing == GetDrivesMissing

SpecMissing == InitMissing /\ [][NextMissing]_vars

-----------------------------------------------------------------------------
(* Specification of the attribute parser: get_drive_state on the report of  *)
(* a clean drive, in dictionary or in reverse order, with one attribute     *)
(* left out (arg.without) and one more line put in before line arg.at       *)

\* the values the added line can have
ExtraValues == {Num(7), Word("many")}

\* line numbers of a report of all eight attributes and the added line
ReportLines == 1..(Len(ds_types) + 1)

Reverse(s) == [i \in 1..Len(s) |-> s[Len(s) + 1 - i]]

\* the report that arg describes; attribute 0 is a line that matches nothing
ReportOf(a) ==
    LET kept == SelectSeq(CleanReport, LAMBDA line : line.a # a.without)
        lines == IF a.reversed THEN Reverse(kept) ELSE kept
        at == Min({a.at, Len(lines) + 1})
    IN  SubSeq(lines, 1, at - 1) \o <<[a |-> a.extra, v |-> a.value]>>
        \o SubSeq(lines, at, Len(lines))

InitState ==
    /\ DefaultFlags
    /\ arg \in [without : 0..Len(ds_types), extra : 0..Len(ds_types),
                value : ExtraValues, at : ReportLines, reversed : BOOLEAN]
    /\ ret = <<>>
    /\ ProcInit("call") /\ LocalsInit

GetDriveState ==
    \E report \in {ReportOf(arg)} :
        Return([report |-> report,
                state |-> get_drive_state(report),
                last_line |-> ds_last_line(report, 1,
                                  [a \in 1..Len(ds_types) |-> NoneVal])])

NextState == GetDriveState

SpecState == InitState /\ [][NextState]_vars

\* ======================= end of the model: the claims =======================

-----------------------------------------------------------------------------
(* The precedence CRITICAL > WARNING > UNKNOWN > OK, stated on its own *)

Rank(code) ==
    CASE code = NAGIOS_CRITICAL -> 3
      [] code = NAGIOS_WARNING  -> 2
      [] code = NAGIOS_UNKNOWN  -> 1
      [] code = NAGIOS_OK       -> 0

WorstOf(S) == CHOOSE x \in S : \A y \in S : Rank(x) >= Rank(y)

-----------------------------------------------------------------------------
(* C2: handle_nagios_codes over the four severities is commutative,        *)
(* idempotent, associative, has OK as identity, and returns whichever of   *)
(* its two arguments comes first in CRITICAL > WARNING > UNKNOWN > OK.     *)
C2_CombineLaws ==
    pc = "return" =>
        /\ ret.ab = ret.ba
        /\ ret.aa = arg[1]
        /\ ret.a_ok = arg[1] /\ ret.ok_a = arg[1]
        /\ ret.left = ret.right
        /\ ret.ab \in {arg[1], arg[2]}
        /\ ret.ab = WorstOf({arg[1], arg[2]})
        /\ ret.left = WorstOf(Range(arg))

\* UNKNOWN combined with WARNING gave WARNING, and UNKNOWN beat the OK after it
C2_Witness ==
    /\ pc = "return"
    /\ arg[1] = NAGIOS_UNKNOWN /\ arg[2] = NAGIOS_WARNING /\ arg[3] = NAGIOS_OK
    /\ ret.ab = NAGIOS_WARNING /\ ret.left = NAGIOS_WARNING

-----------------------------------------------------------------------------
(* C5: detect_empty_slots returns, sorted, exactly the unobserved slots     *)
(* between SLOT_START and the highest observed slot that lie in a maximal   *)
(* run of unobserved slots of length 1 or 2; runs of 3 or more are omitted. *)
C5_Observed == slot_range \ arg

C5_Unobserved ==
    IF C5_Observed = {} THEN {}
    ELSE {s \in SLOT_START..Max(C5_Observed) : s \notin C5_Observed}

C5_RunOf(s) ==
    {t \in C5_Unobserved :
        \A u \in (IF s <= t THEN s..t ELSE t..s) : u \in C5_Unobserved}

C5_ShortRunsOnly ==
    pc = "return" =>
        ret = sorted({s \in C5_Unobserved : Cardinality(C5_RunOf(s)) <= 2})

-----------------------------------------------------------------------------
(* C6: find_relevant_lines returns exactly the lines strictly between the  *)
(* first and the second separator after the first header match, nothing    *)
(* before the first separator, and the empty list when the header is never *)
(* matched or fewer than two separators follow it.                         *)
C6_Headers == {i \in 1..Len(arg) : IsHeader(arg[i], "H")}

C6_Separators ==
    {i \in 1..Len(arg) : i > Min(C6_Headers) /\ IsSeparator(arg[i])}

C6_Between ==
    IF C6_Headers = {} THEN <<>>
    ELSE IF Cardinality(C6_Separators) < 2 THEN <<>>
    ELSE LET s1 == Min(C6_Separators)
             s2 == Min(C6_Separators \ {s1})
         IN  SubSeq(arg, s1 + 1, s2 - 1)

C6_BetweenSeparators == pc = "return" => ret = C6_Between

-----------------------------------------------------------------------------
(* C7: check_bbus judges each controller by exactly one unit, the cache-    *)
(* vault report if the BBU report says to use it and the BBU report         *)
(* otherwise; the facet is CRITICAL exactly when some controller's unit is  *)
(* neither optimal nor (absent while no battery is expected), the CRITICAL  *)
(* list holds exactly those controllers, and otherwise the facet is OK with *)
(* an empty list.                                                           *)
C7_Unit(c) ==
    IF arg.bbu[c].use_cv THEN arg.cv[c]
    ELSE [optimal |-> arg.bbu[c].optimal, absent |-> arg.bbu[c].absent]

C7_Bad ==
    {c \in Range(arg.controllers) :
        ~C7_Unit(c).optimal /\ ~(C7_Unit(c).absent /\ ~EXPECT_BATTERY)}

C7_BatteryFacet ==
    pc = "return" =>
        /\ ret.ecode = (IF C7_Bad = {} THEN NAGIOS_OK ELSE NAGIOS_CRITICAL)
        /\ Range(ret.out) = {<<c>> : c \in C7_Bad}
        /\ Len(ret.out) = Cardinality(C7_Bad)

\* controller 0 has an optimal BBU, controller 1 is sent to its cache-vault,
\* which is absent while a battery is expected: only /c1 is CRITICAL
C7_Witness ==
    /\ pc = "return"
    /\ EXPECT_BATTERY
    /\ arg.controllers = <<0, 1>>
    /\ arg.bbu[0] = [use_cv |-> FALSE, optimal |-> TRUE, absent |-> FALSE]
    /\ arg.bbu[1].use_cv /\ arg.bbu[1].optimal
    /\ arg.cv[1] = [optimal |-> FALSE, absent |-> TRUE]
    /\ ret.ecode = NAGIOS_CRITICAL /\ ret.out = <<<<1>>>>

-----------------------------------------------------------------------------
(* C4: the counter-derived severity of a drive is CRITICAL exactly when     *)
(* temperature >= critical limit or media errors >= 11 or predictive        *)
(* failures >= 11; otherwise WARNING exactly when temperature >= warning    *)
(* limit or media errors >= 1 or predictive failures >= 1 or the SMART      *)
(* alert is set; otherwise OK.  The comparisons are inclusive, and the      *)
(* other-error count counts, with the limits 1 and 11, only when            *)
(* ignore-other-errors is off.                                              *)
C4_Number(raw) == IF raw.t = "na" THEN -99 ELSE raw.v

C4_Temperature == IF USE_FAHRENHEIT THEN arg.temp.f ELSE arg.temp.c

C4_Level(n) == IF n >= 11 THEN NAGIOS_CRITICAL
               ELSE IF n >= 1 THEN NAGIOS_WARNING ELSE NAGIOS_OK

C4_Base ==
    IF \/ C4_Temperature >= (IF USE_FAHRENHEIT THEN 176 ELSE 80)
       \/ C4_Number(arg.media) >= 11
       \/ C4_Number(arg.predictive) >= 11
    THEN NAGIOS_CRITICAL
    ELSE IF \/ C4_Temperature >= (IF USE_FAHRENHEIT THEN 140 ELSE 60)
            \/ C4_Number(arg.media) >= 1
            \/ C4_Number(arg.predictive) >= 1
            \/ arg.smart.t = "yes"
    THEN NAGIOS_WARNING
    ELSE NAGIOS_OK

C4_CounterSeverity ==
    (pc = "return" /\ ~ret.err) =>
        ret.v.drives[1].counters =
            IF IGNORE_OTHERS THEN C4_Base
            ELSE WorstOf({C4_Base, C4_Level(C4_Number(arg.other))})

\* 11 media errors on an otherwise clean drive: CRITICAL, although the 11
\* other errors of the same drive are ignored
C4_Witness ==
    /\ pc = "return" /\ ~ret.err
    /\ IGNORE_OTHERS
    /\ arg.media = Num(11) /\ arg.predictive = Num(0) /\ arg.other = Num(11)
    /\ arg.temp = Temp(59) /\ arg.smart.t = "no"
    /\ ret.v.drives[1].counters = NAGIOS_CRITICAL

-----------------------------------------------------------------------------
(* C1: once the six facet results are folded, the overall severity is the   *)
(* worst of the six facet severities under CRITICAL > WARNING > UNKNOWN >   *)
(* OK, so it is never less severe than any facet's severity.                *)
C1_Facets ==
    <<ALL_FOREIGN_EXIT_CODE, ALL_DISKS_EXIT_CODE, ALL_HOTSPARES_EXIT_CODE,
      ALL_VDS_EXIT_CODE, ALL_ENCLOSURES_EXIT_CODE, BBU_EXIT_CODE>>

C1_WorstOfFacets ==
    pc = "end" =>
        /\ EXIT_CODE = WorstOf(Range(C1_Facets))
        /\ \A i \in 1..Len(C1_Facets) : Rank(EXIT_CODE) >= Rank(C1_Facets[i])

\* a WARNING of the drives and of the hot spare, a CRITICAL enclosure, and a
\* healthy battery folded last: the overall severity is CRITICAL
C1_Witness ==
    /\ pc = "end"
    /\ ALL_DISKS_EXIT_CODE = NAGIOS_WARNING
    /\ ALL_HOTSPARES_EXIT_CODE = NAGIOS_WARNING
    /\ ALL_ENCLOSURES_EXIT_CODE = NAGIOS_CRITICAL
    /\ ALL_VDS_EXIT_CODE = NAGIOS_OK /\ BBU_EXIT_CODE = NAGIOS_OK
    /\ EXIT_CODE = NAGIOS_CRITICAL

-----------------------------------------------------------------------------
(* C3: a drive whose state tag is none of GHS, DHS, Onln, JBOD, UGood,      *)
(* UGShld, Cpybck, Rbld (matched without regard to case) is CRITICAL, is in *)
(* the CRITICAL list, and makes the drive facet and the overall verdict     *)
(* CRITICAL, whatever its counters and the flags; GHS, DHS, Onln and JBOD   *)
(* add nothing to the counter-derived severity, UGood and UGShld add        *)
(* WARNING unless ignore-unconfigured-good is set, Cpybck and Rbld add      *)
(* WARNING.  (For a drive whose report get_drive_state could read.)         *)
C3_Quiet == {"ghs", "dhs", "onln", "jbod"}

C3_Unconfigured == {"ugood", "ugshld"}

C3_Moving == {"cpybck", "rbld"}

C3_Unknown(drive) == lower(drive.tag) \notin C3_Quiet \cup C3_Unconfigured \cup C3_Moving

C3_Expected(drive) ==
    IF C3_Unknown(drive) THEN NAGIOS_CRITICAL
    ELSE IF lower(drive.tag) \in C3_Moving
    THEN WorstOf({drive.counters, NAGIOS_WARNING})
    ELSE IF lower(drive.tag) \in C3_Unconfigured /\ ~IGNORE_UGOOD
    THEN WorstOf({drive.counters, NAGIOS_WARNING})
    ELSE drive.counters

C3_RoleSeverity ==
    (seen.call = "get_drives" /\ ~seen.err) =>
        \A i \in 1..Len(seen.result.drives) :
            LET drive == seen.result.drives[i]
                id == <<seen.controller, seen.enclosure[1], drive.slot>>
            IN  /\ drive.state = C3_Expected(drive)
                /\ C3_Unknown(drive) =>
                      /\ drive.state = NAGIOS_CRITICAL
                      /\ id \in Range(seen.result.out)
                      /\ id \in Range(ALL_DISKS_OUT)
                      /\ ALL_DISKS_EXIT_CODE = NAGIOS_CRITICAL
                      /\ pc = "end" => EXIT_CODE = NAGIOS_CRITICAL
                      /\ pc = "exited" =>
                            /\ exit_status = NAGIOS_CRITICAL
                            /\ printed[1].state = "CR"

\* a clean drive tagged Offln, with every flag at its most lenient: the probe
\* ends CRITICAL and names the drive
C3_Witness ==
    /\ pc = "exited" /\ exit_status = NAGIOS_CRITICAL
    /\ IGNORE_UGOOD /\ IGNORE_OTHERS /\ MISSING_OK /\ ~EXPECT_HOTSPARE /\ ~EXPECT_BATTERY
    /\ seen.call = "get_drives" /\ ~seen.err
    /\ Len(seen.result.drives) = 1
    /\ seen.result.drives[1].tag = "Offln"
    /\ seen.result.drives[1].counters = NAGIOS_OK
    /\ ALL_DISKS_OUT = <<<<0, 0, seen.result.drives[1].slot>>>>

-----------------------------------------------------------------------------
(* C8: when the controller listing has another number of rows than the      *)
(* reported controller count (0 if none is reported), the probe ends with   *)
(* state UK and exit code 3 and has issued no battery, virtual drive,       *)
(* enclosure, drive or foreign configuration command; when the two agree,   *)
(* get_controllers returns the listed controllers and the probe goes on.    *)
C8_Reported == IF seen.count.none THEN 0 ELSE seen.count.v

C8_Listed == [i \in 1..Len(seen.rows) |-> seen.rows[i].ctl]

C8_FacetCommands == {"bbu show", "cv show", "vall show", "eall show", "sall show", "show all", "fall show"}

C8_MismatchIsFatal ==
    /\ seen.call = "get_controllers" =>
          IF Len(seen.rows) # C8_Reported
          THEN /\ pc = "exited"
               /\ exit_status = NAGIOS_UNKNOWN
               /\ Len(printed) = 1 /\ printed[1].state = "UK"
               /\ issued \cap C8_FacetCommands = {}
          ELSE /\ CONTROLLERS = C8_Listed
               /\ pc = "exited" => printed[1].state # "UK"
    /\ issued \cap C8_FacetCommands # {} => Len(CONTROLLERS) > 0

\* one controller listed while the count says none
C8_Witness ==
    /\ seen.call = "get_controllers"
    /\ seen.count = Val(0) /\ Len(seen.rows) = 1
    /\ pc = "exited" /\ exit_status = NAGIOS_UNKNOWN

-----------------------------------------------------------------------------
(* C9 as stated: a WARNING naming the enclosure is raised exactly when the  *)
(* number of drive rows differs from the enclosure's declared slot count.   *)
C9_Raised ==
    /\ <<seen.controller, seen.enclosure[1]>> \in Range(ALL_DISKS_OUT_WA)
    /\ Rank(ALL_DISKS_EXIT_CODE) >= Rank(NAGIOS_WARNING)

C9_NotRaised == <<seen.controller, seen.enclosure[1]>> \notin Range(ALL_DISKS_OUT_WA)

C9_SlotCount ==
    (seen.call = "get_drives" /\ ~seen.err) =>
        IF seen.result.count # seen.enclosure[2] THEN C9_Raised ELSE C9_NotRaised

(* C9, amended: a WARNING naming the enclosure is raised exactly when the   *)
(* number of drive rows differs from the number of physical drives the      *)
(* enclosure reports (the PD column of its row), whatever its slot count.   *)
C9_ReportedDriveCount ==
    (seen.call = "get_drives" /\ ~seen.err) =>
        IF seen.result.count # seen.enclosure[3] THEN C9_Raised ELSE C9_NotRaised

\* an enclosure of two slots that reports one drive, and one drive row: no
\* warning for the enclosure
C9_Witness ==
    /\ seen.call = "get_drives" /\ ~seen.err
    /\ seen.enclosure[2] = 2 /\ seen.enclosure[3] = 1
    /\ seen.result.count = 1
    /\ C9_NotRaised

\* an enclosure that reports one drive, and no drive row: the warning
C9_WitnessRaised ==
    /\ seen.call = "get_drives" /\ ~seen.err
    /\ seen.enclosure[2] = 1 /\ seen.enclosure[3] = 1
    /\ seen.result.count = 0
    /\ C9_Raised

-----------------------------------------------------------------------------
(* C10 as stated: when an attribute of a drive's report is present with a   *)
(* value that cannot be coerced to the attribute's type, the probe ends     *)
(* with state UK and exit code 3, never with OK, WARNING or CRITICAL.       *)
C10_Uncoercible(report) ==
    \E j \in 1..Len(report) :
        /\ report[j].a \in {A_TEMPERATURE, A_MEDIA, A_OTHER, A_PREDICTIVE}
        /\ report[j].v.t = "word"

C10_ParseErrorIsUnknown ==
    (/\ seen.call = "get_drives"
     /\ \E i \in 1..Len(seen.reports) : C10_Uncoercible(seen.reports[i])) =>
        /\ pc = "exited"
        /\ exit_status = NAGIOS_UNKNOWN
        /\ Len(printed) = 1 /\ printed[1].state = "UK"

-----------------------------------------------------------------------------
(* C11: the summary is built facet by facet in the order FC, PDs, HS, VDs,  *)
(* Enc, Batt; a facet gives "TAG:", then "CR-<ids>" exactly when its        *)
(* CRITICAL list is not empty, "WA-<ids>" exactly when its WARNING list is  *)
(* not empty, and "OK;" exactly when its severity is OK, and the foreign    *)
(* configuration facet gives nothing when it is OK.  With six OK facets the *)
(* summary is "PDs: OK; HS: OK; VDs: OK; Enc: OK; Batt: OK;", exit code 0.  *)
C11_Segment(code, tag, cr, wa) ==
    IF tag = "FC" /\ code = NAGIOS_OK THEN <<>>
    ELSE <<[t |-> tag, ids |-> <<>>]>>
         \o (IF cr = <<>> THEN <<>> ELSE <<[t |-> "CR-", ids |-> cr]>>)
         \o (IF wa = <<>> THEN <<>> ELSE <<[t |-> "WA-", ids |-> wa]>>)
         \o (IF code = NAGIOS_OK THEN <<[t |-> "OK;", ids |-> <<>>]>> ELSE <<>>)

C11_Summary ==
    C11_Segment(ALL_FOREIGN_EXIT_CODE, "FC", <<>>, ALL_FOREIGN_OUT)
    \o C11_Segment(ALL_DISKS_EXIT_CODE, "PDs", ALL_DISKS_OUT, ALL_DISKS_OUT_WA)
    \o C11_Segment(ALL_HOTSPARES_EXIT_CODE, "HS", <<>>, ALL_HOTSPARES_OUT)
    \o C11_Segment(ALL_VDS_EXIT_CODE, "VDs", ALL_VDS_OUT, ALL_VDS_OUT_WA)
    \o C11_Segment(ALL_ENCLOSURES_EXIT_CODE, "Enc", ALL_ENCLOSURES_OUT, <<>>)
    \o C11_Segment(BBU_EXIT_CODE, "Batt", BBU_OUT, <<>>)

C11_AllOk ==
    <<[t |-> "PDs", ids |-> <<>>], [t |-> "OK;", ids |-> <<>>],
      [t |-> "HS", ids |-> <<>>], [t |-> "OK;", ids |-> <<>>],
      [t |-> "VDs", ids |-> <<>>], [t |-> "OK;", ids |-> <<>>],
      [t |-> "Enc", ids |-> <<>>], [t |-> "OK;", ids |-> <<>>],
      [t |-> "Batt", ids |-> <<>>], [t |-> "OK;", ids |-> <<>>]>>

C11_SummaryByFacet ==
    /\ pc = "end" =>
          /\ EXIT_STATE = C11_Summary
          /\ (\A i \in 1..Len(C1_Facets) : C1_Facets[i] = NAGIOS_OK) =>
                EXIT_STATE = C11_AllOk /\ EXIT_CODE = NAGIOS_OK
    /\ (pc = "exited" /\ printed[1].state # "UK") =>
          /\ printed[1].output = EXIT_STATE
          /\ exit_status = EXIT_CODE
          /\ EXIT_STATE = C11_AllOk => exit_status = 0

\* one controller with a CRITICAL drive in an enclosure that reports no
\* drive, and a foreign configuration: "FC: WA-/c0; PDs: CR-... WA-..." first
C11_Witness ==
    /\ pc = "exited" /\ printed[1].state = "CR"
    /\ Len(printed[1].output) >= 5
    /\ printed[1].output[1] = [t |-> "FC", ids |-> <<>>]
    /\ printed[1].output[2] = [t |-> "WA-", ids |-> <<<<0>>>>]
    /\ printed[1].output[3] = [t |-> "PDs", ids |-> <<>>]
    /\ printed[1].output[4].t = "CR-" /\ Len(printed[1].output[4].ids) = 1
    /\ printed[1].output[5] = [t |-> "WA-", ids |-> <<<<0, 0>>>>]

\* one controller and nothing wrong: the five tags with "OK;", exit code 0
C11_WitnessAllOk ==
    /\ pc = "exited" /\ exit_status = 0
    /\ CONTROLLERS = <<0>>
    /\ printed[1].output = C11_AllOk

-----------------------------------------------------------------------------
(* C12 as stated: for every virtual drive, no scheduled consistency check   *)
(* gives WARNING, the state pdgd in whatever letter case gives WARNING, the *)
(* state dgrd in whatever letter case gives CRITICAL; the facet severity    *)
(* combines all of them, the identifier enters the WARNING list once per    *)
(* WARNING condition and the CRITICAL list for the CRITICAL one, and each   *)
(* drive has exactly one detail line, prefixed with its worst severity.     *)
C12_NoCheck(row) == row.cc # "ON"

C12_Partially(row) == row.state \in {"Pdgd", "pdgd"}

C12_Degraded(row) == row.state \in {"Dgrd", "dgrd"}

C12_Worst(row) ==
    IF C12_Degraded(row) THEN NAGIOS_CRITICAL
    ELSE IF C12_NoCheck(row) \/ C12_Partially(row) THEN NAGIOS_WARNING
    ELSE NAGIOS_OK

C12_Count(list, id) == Cardinality({j \in 1..Len(list) : list[j] = id})

C12_ThreeConditions ==
    pc = "return" =>
        /\ ret.exit_code = WorstOf({NAGIOS_OK} \cup {C12_Worst(arg[i]) : i \in 1..Len(arg)})
        /\ \A i \in 1..Len(arg) :
              /\ C12_Count(ret.out, <<0, arg[i].vd>>) =
                    (IF C12_Degraded(arg[i]) THEN 1 ELSE 0)
              /\ C12_Count(ret.out_wa, <<0, arg[i].vd>>) =
                    (IF C12_NoCheck(arg[i]) THEN 1 ELSE 0)
                    + (IF C12_Partially(arg[i]) THEN 1 ELSE 0)
        /\ Len(ret.long) = Len(arg)
        /\ \A i \in 1..Len(arg) :
              /\ ret.long[i].id = <<0, arg[i].vd>>
              /\ ret.long[i].pre = prep[C12_Worst(arg[i]) + 1]

-----------------------------------------------------------------------------
(* C13 as stated: a missing slot whose (controller, enclosure, slot) is in  *)
(* the --missingoklist allow-list is no WARNING (not in the WARNING list,   *)
(* no rise of the facet severity) even with --missingok off; a missing slot *)
(* outside the list is a WARNING when the flag is off; with the flag on no  *)
(* missing slot is a WARNING.                                               *)
C13_Missing ==
    {ret.v.long[j].id : j \in {k \in 1..Len(ret.v.long) : ret.v.long[k].what = "PD (Missing)"}}

C13_Reported == {id \in C13_Missing : ~MISSING_OK /\ id \notin MISSING_OK_LIST}

C13_AllowList ==
    (pc = "return" /\ ~ret.err) =>
        /\ \A id \in C13_Missing : id \in Range(ret.v.out_wa) <=> id \in C13_Reported
        /\ ret.v.exit_code = (IF C13_Reported = {} THEN NAGIOS_OK ELSE NAGIOS_WARNING)

-----------------------------------------------------------------------------
(* C14: get_drive_state reads the lines of the report in order; each of the *)
(* eight attributes gets the coerced value of the first line that matches   *)
(* it, a later line of an attribute already captured never replaces it, and *)
(* no line after the one that completes the eight attributes is read.       *)
C14_First(a) ==
    IF \E j \in 1..Len(ret.report) : ret.report[j].a = a
    THEN Min({j \in 1..Len(ret.report) : ret.report[j].a = a})
    ELSE 0

C14_Coerced(a) == ds_capture(ds_types[a], ret.report[C14_First(a)].v)

C14_Attributes == 1..Len(ds_types)

C14_Completing ==
    IF \A a \in C14_Attributes : C14_First(a) # 0
    THEN Max({C14_First(a) : a \in C14_Attributes})
    ELSE Len(ret.report)

C14_FirstMatchWins ==
    pc = "return" =>
        /\ ret.state.err <=>
              \E a \in C14_Attributes : C14_First(a) # 0 /\ C14_Coerced(a).err
        /\ ~ret.state.err =>
              /\ \A a \in C14_Attributes :
                    ret.state.v[a] =
                        (IF C14_First(a) = 0 THEN NoneVal ELSE C14_Coerced(a).v)
              /\ ret.last_line = C14_Completing

\* the report in dictionary order with a second media error line, of value
\* 7, put in before the predictive failure line: the first value, 0, is kept
C14_Witness ==
    /\ pc = "return" /\ ~ret.state.err
    /\ arg = [without |-> 0, extra |-> A_MEDIA, value |-> Num(7), at |-> 8,
              reversed |-> FALSE]
    /\ ret.state.v[A_MEDIA] = Val(0)
    /\ Len(ret.report) = 9 /\ ret.last_line = 9

\* a ninth line "Media Error Count = many" after the eight attributes: the
\* scan ends at line 8 and the line is never converted
C14_WitnessStop ==
    /\ pc = "return" /\ ~ret.state.err
    /\ arg = [without |-> 0, extra |-> A_MEDIA, value |-> Word("many"), at |-> 9,
              reversed |-> FALSE]
    /\ Len(ret.report) = 9 /\ ret.last_line = 8


\* ---- C15 ----
\* the severity a controller's battery contributed to the battery facet:
\* CRITICAL when its identifier was added to the CRITICAL list, OK otherwise
C15_Contributed(id) == IF id \in Range(ret.out) THEN "CR" ELSE "OK"

\* C15: every per-device line of the detail text carries the prefix of the
\* severity the same device contributed to its facet in the same run; no line
\* prefixed OK is written for a battery that raised the facet severity or was
\* added to the CRITICAL list.  (Stated for the battery checker.)
C15_PrefixMatchesSeverity ==
    pc = "return" =>
        \A i \in 1..Len(ret.long) :
            ret.long[i].pre = C15_Contributed(ret.long[i].id)


\* ---- C16 ----
\* the ctrlcount report has no count line or reports 0, and the listing has
\* no rows
C16_NoControllers ==
    /\ seen.call = "get_controllers"
    /\ seen.count \in {NoneVal, Val(0)}
    /\ Len(seen.rows) = 0

C16_Commands == {"bbu show", "cv show", "vall show", "eall show", "sall show", "show all", "fall show"}

\* "PDs: OK; HS: OK; VDs: OK; Enc: OK; Batt: OK;"
C16_Summary ==
    <<Piece("PDs", <<>>), Piece("OK;", <<>>), Piece("HS", <<>>), Piece("OK;", <<>>),
      Piece("VDs", <<>>), Piece("OK;", <<>>), Piece("Enc", <<>>), Piece("OK;", <<>>),
      Piece("Batt", <<>>), Piece("OK;", <<>>)>>

\* C16: when the controller-count report has no count line (or reports 0)
\* and the controller listing has no rows, get_controllers returns the empty
\* list without ending the probe, no battery, virtual drive, enclosure,
\* drive or foreign configuration command is issued, and the probe ends
\* with state OK, exit code 0 and the summary
\* "PDs: OK; HS: OK; VDs: OK; Enc: OK; Batt: OK;".
C16_NoControllersIsOk ==
    C16_NoControllers =>
        /\ CONTROLLERS = <<>>
        /\ issued \cap C16_Commands = {}
        /\ pc \in {"check_bbus", "aggregate", "end", "exited"}
        /\ pc \in {"aggregate", "end", "exited"} =>
              BBU_EXIT_CODE = NAGIOS_OK /\ BBU_OUT = <<>> /\ BBU_OUT_LONG = <<>>
        /\ pc \in {"end", "exited"} =>
              EXIT_CODE = NAGIOS_OK /\ EXIT_STATE = C16_Summary
        /\ pc = "exited" =>
              /\ exit_status = 0
              /\ Len(printed) = 1
              /\ printed[1].state = "OK"
              /\ printed[1].output = C16_Summary
              /\ printed[1].long = <<>>

\* no count line, no rows, and the probe has ended
C16_Witness ==
    /\ C16_NoControllers /\ seen.count = NoneVal
    /\ pc = "exited" /\ exit_status = 0
    /\ printed[1].output = C16_Summary

====
